---- MODULE Spec2Model ----
(***************************************************************************)
(* Model of the per-Feed challenge pipeline of chronicleprotocol/challenger *)
(* (src/core/challenger.go): the Run loop, executeTick, the challengeable  *)
(* predicate, the detached challenge goroutines, and the correlation       *)
(* filter PickUnchallengedPokes.                                           *)
(*                                                                         *)
(* Specifications:                                                         *)
(*   Spec      the Run loop of one Challenger with its challenge tasks;    *)
(*   SpecPick  PickUnchallengedPokes applied to bounded input lists;       *)
(*   SpecFrom  getFromBlockNumber applied to drawn inputs;                 *)
(*   SpecPred  isPokeChallengeable applied to drawn inputs;                *)
(*   SpecChallenge  one challenge goroutine: ChallengePoke on the relay    *)
(*             and public endpoints, the confirmation waits, the counter;  *)
(*   SpecLive  Spec with the fairness the scheduling of Run provides;      *)
(*   SpecChallengeLive  SpecChallenge with the timeout of the wait firing; *)
(*   SpecScan  executeTick as one step, over any number of ticks: the      *)
(*             cursor, the gauge and the block ranges GetPokes is asked;   *)
(*   SpecFeeds the Challengers of two Feeds started by main, interleaved;  *)
(*   SpecWait  WaitForTxConfirmation on drawn arguments and receipts;      *)
(*   SpecProvider  GetPokes, GetSuccessfulChallenges and                   *)
(*             IsPokeSignatureValid on drawn answers of the RPC client.    *)
(***************************************************************************)
EXTENDS Integers, Sequences, FiniteSets

\* ---------------------------------------------------------------- bounds
\* Highest block number the chain adapter reports under Spec.
MaxBlock == 1
\* Highest block number of the events drawn under SpecPick.
MaxPickBlock == 2
\* Longest poke list drawn for PickUnchallengedPokes under SpecPick.
MaxPokes == 3
\* Longest success list drawn for PickUnchallengedPokes under SpecPick.
MaxSucc == 2
\* Longest poke list one GetPokes call returns under Spec.
TickMaxPokes == 2
\* Longest success list one GetSuccessfulChallenges call returns under Spec.
TickMaxSucc == 1
\* Number of ticks Run executes under Spec (the first one included).
MaxTicks == 2
\* Highest of the consecutive low block numbers drawn under SpecFrom.
MaxFromLatest == 2
\* Receipt polls one WaitForTxConfirmation makes before its timeout, under SpecChallenge.
MaxPolls == 2
\* Highest block number the chain adapter reports under SpecScan.
MaxScanBlock == 2
\* Most poke logs one GetPokes call returns under SpecScan.
MaxScanPokes == 1
\* Number of ticks each Feed's Run executes under SpecFeeds.
MaxFeedTicks == 2
\* Highest block number of a log under SpecProvider.
MaxLogBlock == 1
\* Most logs one GetLogs answer holds under SpecProvider.
MaxLogs == 2
\* The count of fetches over one block stops here.
MaxScans == 3

\* ------------------------------------------------------- program constants
slotPeriodInSec == 12

\* ------------------------------------------------------------- the events
\* Log identities of the pokes of one block (two pokes may share a block).
PokeTags == {"a", "b"}
\* Under Spec the adapter reports at most one poke per block.
TickPokeTags == {"a"}

OpPokedEvent(b, t) == [name |-> "OpPoked", blk |-> b, tag |-> t]

OpPokeChallengedSuccessfullyEvent(b) ==
    [name |-> "OpPokeChallengedSuccessfullyEvent", blk |-> b, tag |-> "s"]

Name(ev) == ev.name

GetBlockNumber(ev) == ev.blk

\* ------------------------------------------------------------ sort.Slice
\* Less with the comparison turned around (a descending sort).
Less_Descending(a, b) == GetBlockNumber(a) > GetBlockNumber(b)

\* The less function handed to sort.Slice: block numbers only.
Less(a, b) == GetBlockNumber(a) < GetBlockNumber(b)

\* sort.Slice on a slice of at most 12 elements is an insertion sort: each
\* element moves towards the front while it is less than its predecessor.
RECURSIVE InsertLast(_)
InsertLast(s) ==
    IF Len(s) <= 1 THEN s
    ELSE LET n == Len(s) IN
         IF Less(s[n], s[n - 1])
         THEN InsertLast(SubSeq(s, 1, n - 2) \o <<s[n]>>) \o <<s[n - 1]>>
         ELSE s

RECURSIVE SortSlice(_)
SortSlice(s) ==
    IF Len(s) <= 1 THEN s
    ELSE InsertLast(SortSlice(SubSeq(s, 1, Len(s) - 1)) \o <<s[Len(s)]>>)

\* ------------------------------------------------- PickUnchallengedPokes
\* PickSinglePoke looking for a challenge in a later block instead.
PickSinglePoke_LaterBlock(pokes, challenges) ==
    IF \E i \in 1..Len(challenges) :
          GetBlockNumber(challenges[i]) > GetBlockNumber(pokes[1])
    THEN <<>>
    ELSE pokes

\* The len(pokes) == 1 branch: any challenge in an earlier block drops the poke.
PickSinglePoke(pokes, challenges) ==
    IF \E i \in 1..Len(challenges) :
          GetBlockNumber(challenges[i]) < GetBlockNumber(pokes[1])
    THEN <<>>
    ELSE pokes

\* The loop over the sorted slice, from (1-based) position i on.
RECURSIVE WalkSortable(_, _)
WalkSortable(sortable, i) ==
    IF i > Len(sortable) THEN <<>>
    ELSE LET ev == sortable[i]
             rest == WalkSortable(sortable, i + 1)
         IN IF Name(ev) = "OpPoked"
            THEN IF i = Len(sortable)
                 THEN <<ev>> \o rest
                 ELSE IF Len(sortable) - 1 > i
                         /\ Name(sortable[i + 1]) = "OpPokeChallengedSuccessfullyEvent"
                      THEN rest
                      ELSE <<ev>> \o rest
            ELSE rest

\* PickUnchallengedPokes returning early only when both lists are empty.
PickUnchallengedPokes_BothEmpty(pokes, challenges) ==
    IF Len(pokes) = 0 /\ Len(challenges) = 0 THEN pokes
    ELSE IF Len(pokes) = 1 THEN PickSinglePoke(pokes, challenges)
    ELSE WalkSortable(SortSlice(pokes \o challenges), 1)

PickUnchallengedPokes(pokes, challenges) ==
    IF Len(pokes) = 0 \/ Len(challenges) = 0 THEN pokes
    ELSE IF Len(pokes) = 1 THEN PickSinglePoke(pokes, challenges)
    ELSE WalkSortable(SortSlice(pokes \o challenges), 1)

\* ------------------------------------------------------------ input sets
SeqsUpTo(S, n) == UNION {[1..k -> S] : k \in 0..n}

\* The elements of a list.
Elems(s) == {s[i] : i \in 1..Len(s)}

NoDup(s) == \A i, j \in 1..Len(s) : i # j => s[i] # s[j]

\* Poke lists: distinct log events, in any order.
PokeLists(blocks, tags, n) ==
    {s \in SeqsUpTo({OpPokedEvent(b, t) : b \in blocks, t \in tags}, n) : NoDup(s)}

\* Success lists: any order, several successes may share a block.
SuccessLists(blocks, n) ==
    SeqsUpTo({OpPokeChallengedSuccessfullyEvent(b) : b \in blocks}, n)

VARIABLES pickPokes, pickChallenges, pickResult, pickDone

pickVars == <<pickPokes, pickChallenges, pickResult, pickDone>>

PickInit ==
    /\ pickPokes \in PokeLists(0..MaxPickBlock, PokeTags, MaxPokes)
    /\ pickChallenges \in SuccessLists(0..MaxPickBlock, MaxSucc)
    /\ pickResult = <<>>
    /\ pickDone = FALSE

PickIdle ==
    /\ pickPokes = <<>>
    /\ pickChallenges = <<>>
    /\ pickResult = <<>>
    /\ pickDone = FALSE


\* =====================================================================
\* The Challenger of one Feed: Run, executeTick and the challenge tasks
\* =====================================================================
\* A *big.Int pointer: Nil, or Ptr(n).
Nil == <<>>

Ptr(n) == <<n>>

Val(p) == p[1]

\* Values GetChallengePeriod returns (uint16 seconds): 0, 1 and 2 slots.
PeriodValues == {5, 12, 30}

\* Readings of time.Now() (seconds).
NowValues == {40}

\* Block timestamps BlockByNumber may report around the window's lower edge
\* now - period, and one later than now.
BlockTimestamps(now, challengePeriod) ==
    {now - challengePeriod - 1, now - challengePeriod, now + 1}

\* The pokes the chain holds, as the adapter reports them under Spec.
TickPokeUniverse == {OpPokedEvent(b, t) : b \in 0..MaxBlock, t \in TickPokeTags}

VARIABLES
    lastProcessedBlock,     \* Challenger.lastProcessedBlock: Nil or Ptr(n)
    pc,                     \* where the Run goroutine stands
    ctxDone,                \* c.ctx has been cancelled
    tickNo,                 \* ticks started so far
    latestBlockNumber,      \* executeTick local, Nil outside its scope
    period,                 \* executeTick local (0 outside its scope)
    fromBlockNumber,        \* executeTick local, Nil outside its scope
    pokeLogs,               \* executeTick local: result of GetPokes
    challenges,             \* executeTick local: result of GetSuccessfulChallenges
    tickPokes,              \* executeTick local "pokes": the filtered pokes
    idx,                    \* position of the range loop over tickPokes
    lastSpawn,              \* what isPokeChallengeable observed for the poke just spawned
    inflight,               \* running challenge goroutines, per poke
    errorsCount,            \* ErrorsCounter, all label values together
    challengeCounter,       \* ChallengeCounter, all label values together
    lastScannedBlockGauge,  \* LastScannedBlockGauge: Nil until first set
    tickErr,                \* what executeTick returned to Run: "" is nil, else the failed step
    wg                      \* the WaitGroup counter: the Feed's token, taken by main before Run

tickLocals == <<latestBlockNumber, period, fromBlockNumber, pokeLogs, challenges,
                tickPokes, idx, lastSpawn, tickErr>>

metrics == <<errorsCount, challengeCounter, lastScannedBlockGauge>>

runVars == <<lastProcessedBlock, pc, ctxDone, tickNo, tickLocals, inflight, metrics, wg>>

\* getFromBlockNumber on drawn inputs: the cursor, the latest block, the period.
VARIABLES fromCursor, fromLatest, fromPeriod, fromResult, fromDone

fromVars == <<fromCursor, fromLatest, fromPeriod, fromResult, fromDone>>

FromIdle ==
    /\ fromCursor = Nil
    /\ fromLatest = Nil
    /\ fromPeriod = 0
    /\ fromResult = [err |-> FALSE, val |-> Nil]
    /\ fromDone = FALSE

\* isPokeChallengeable on a drawn poke and drawn provider answers.
VARIABLES predPoke, predBlockErr, predTs, predNow, predPeriod, predSigErr, predValid,
          predResult, predCalls, predDone

predVars == <<predPoke, predBlockErr, predTs, predNow, predPeriod, predSigErr, predValid,
              predResult, predCalls, predDone>>

PredIdle ==
    /\ predPoke = Nil
    /\ predBlockErr = FALSE
    /\ predTs = 0
    /\ predNow = 0
    /\ predPeriod = 0
    /\ predSigErr = FALSE
    /\ predValid = FALSE
    /\ predResult = FALSE
    /\ predCalls = <<>>
    /\ predDone = FALSE

\* One challenge goroutine (SpawnChallenge) with its ChallengePoke call.
VARIABLES
    cpFlashbot,   \* the provider has a flashbotClient
    cpPc,         \* [client, at]: the endpoint in use and the position
    cpLog,        \* the calls made on the two RPC clients, in order, with their answers
    cpResult,     \* what ChallengePoke returned: [err, hash]
    cpIncs        \* the label values ChallengeCounter was incremented with, in order

cpVars == <<cpFlashbot, cpPc, cpLog, cpResult, cpIncs>>

CpIdle ==
    /\ cpFlashbot = FALSE
    /\ cpPc = [client |-> "", at |-> "idle"]
    /\ cpLog = <<>>
    /\ cpResult = [err |-> FALSE, hash |-> Nil]
    /\ cpIncs = <<>>

\* executeTick as one step, tick after tick.
VARIABLES
    scCursor,   \* Challenger.lastProcessedBlock: Nil or Ptr(n)
    scGauge,    \* LastScannedBlockGauge: Nil until first set
    scPrev,     \* the tick before the last one: how it ended, what it read and asked
    scLast,     \* the last tick
    scLost,     \* blocks below the latest block of a tick whose success fetch failed,
                \* inside the range that tick fetched pokes from
    scScans     \* successful poke fetches in a row whose range held the block the
                \* cursor points to, counted up to MaxScans

scanVars == <<scCursor, scGauge, scPrev, scLast, scLost, scScans>>

\* No tick yet.
NoTick == [step |-> "none", latest |-> <<>>, from |-> <<>>, pokes |-> 0, spawned |-> 0]

ScanIdle ==
    /\ scCursor = <<>>
    /\ scGauge = <<>>
    /\ scPrev = NoTick
    /\ scLast = NoTick
    /\ scLost = {}
    /\ scScans = 0

\* The addresses main starts a Challenger for under SpecFeeds.
Feeds == {"A", "B"}

\* The Challengers of main, one per address, each in its own goroutine.
VARIABLES
    fdCursor,    \* per Feed: Challenger.lastProcessedBlock
    fdPc,        \* per Feed: where its Run goroutine stands
    fdTicks,     \* per Feed: ticks started so far
    fdInflight,  \* per Feed: running challenge goroutines
    fdCtxDone,   \* the context of main, handed to every Challenger, is cancelled
    fdWg         \* the WaitGroup of main: one token per Feed

feedVars == <<fdCursor, fdPc, fdTicks, fdInflight, fdCtxDone, fdWg>>

FeedsIdle ==
    /\ fdCursor = [f \in Feeds |-> <<>>]
    /\ fdPc = [f \in Feeds |-> "Run"]
    /\ fdTicks = [f \in Feeds |-> 0]
    /\ fdInflight = [f \in Feeds |-> 0]
    /\ fdCtxDone = FALSE
    /\ fdWg = 0

\* One call of WaitForTxConfirmation.
VARIABLES
    wtClient,   \* the client argument: "nil" or "client"
    wtHash,     \* the txHash argument: Nil or Ptr(hash)
    wtPc,       \* "idle", "call", "select" (in the loop) or "returned"
    wtPolls,    \* what the GetTransactionReceipt calls made so far answered
    wtResult    \* what it returned: [err, receipt]

waitVars == <<wtClient, wtHash, wtPc, wtPolls, wtResult>>

WaitIdle ==
    /\ wtClient = "nil"
    /\ wtHash = <<>>
    /\ wtPc = "idle"
    /\ wtPolls = <<>>
    /\ wtResult = [err |-> "", receipt |-> <<>>]

\* One call of a read method of the provider, on drawn answers of the client.
VARIABLES
    pvFn,        \* the method: "GetPokes", "GetSuccessfulChallenges", "IsPokeSignatureValid"
    pvQueryErr,  \* client.GetLogs returns an error
    pvLogs,      \* the logs client.GetLogs returns
    pvMsg,       \* what the constructPokeMessage round gives
    pvSig,       \* what the isAcceptableSchnorrSignatureNow round gives
    pvResult,    \* what the method returned: [err, val]
    pvCalls,     \* the calls made on the client, in order
    pvDone

provVars == <<pvFn, pvQueryErr, pvLogs, pvMsg, pvSig, pvResult, pvCalls, pvDone>>

ProvIdle ==
    /\ pvFn = ""
    /\ pvQueryErr = FALSE
    /\ pvLogs = <<>>
    /\ pvMsg = ""
    /\ pvSig = ""
    /\ pvResult = [err |-> FALSE, val |-> <<>>]
    /\ pvCalls = <<>>
    /\ pvDone = FALSE

\* The variables of the other specifications, which the Run loop leaves alone.
auxVars == <<pickVars, fromVars, predVars, cpVars, scanVars, feedVars, waitVars, provVars>>

vars == <<runVars, auxVars>>

NoSpawn == [spawned |-> FALSE, sigErr |-> FALSE]

\* NewChallenger: a seed of 0 leaves the cursor nil.
NewChallenger(fromBlock) == IF fromBlock # 0 THEN Ptr(fromBlock) ELSE Nil

\* getEarliestBlockNumber without the comparison that returns 0.
getEarliestBlockNumber_NoClamp(lastBlock, challengePeriod) ==
    lastBlock - (challengePeriod \div slotPeriodInSec)

getEarliestBlockNumber(lastBlock, challengePeriod) ==
    LET blocksPerPeriod == challengePeriod \div slotPeriodInSec
    IN IF lastBlock < blocksPerPeriod THEN 0 ELSE lastBlock - blocksPerPeriod

\* The range starting one block after the cursor.
getFromBlockNumber_NextBlock(cursor, latest, challengePeriod) ==
    IF cursor # Nil THEN [err |-> FALSE, val |-> Ptr(Val(cursor) + 1)]
    ELSE IF latest = Nil THEN [err |-> TRUE, val |-> Nil]
    ELSE [err |-> FALSE, val |-> Ptr(getEarliestBlockNumber(Val(latest), challengePeriod))]

\* getFromBlockNumber: [err, val], val a pointer.
getFromBlockNumber(cursor, latest, challengePeriod) ==
    IF cursor # Nil THEN [err |-> FALSE, val |-> cursor]
    ELSE IF latest = Nil THEN [err |-> TRUE, val |-> Nil]
    ELSE [err |-> FALSE, val |-> Ptr(getEarliestBlockNumber(Val(latest), challengePeriod))]

\* The time check taking a block exactly one period old as too old.
sigCalled_Strict(blockErr, ts, now, challengePeriod) ==
    ~blockErr /\ ~(ts <= now - challengePeriod)

\* Which calls isPokeChallengeable makes, given what the provider would answer:
\* IsPokeSignatureValid is reached only past the block lookup and time check.
sigCalled(blockErr, ts, now, challengePeriod) ==
    ~blockErr /\ ~(ts < now - challengePeriod)

\* isPokeChallengeable without its time check.
isPokeChallengeable_NoTimeCheck(blockErr, ts, now, challengePeriod, sigErr, valid) ==
    IF blockErr THEN FALSE
    ELSE IF sigErr THEN FALSE
    ELSE ~valid

\* isPokeChallengeable going on to the validity after a signature-check error.
isPokeChallengeable_IgnoresSigErr(blockErr, ts, now, challengePeriod, sigErr, valid) ==
    IF blockErr THEN FALSE
    ELSE IF ts < now - challengePeriod THEN FALSE
    ELSE ~valid

\* isPokeChallengeable returning valid instead of its negation.
isPokeChallengeable_ReturnsValid(blockErr, ts, now, challengePeriod, sigErr, valid) ==
    IF blockErr THEN FALSE
    ELSE IF ts < now - challengePeriod THEN FALSE
    ELSE IF sigErr THEN FALSE
    ELSE valid

\* isPokeChallengeable for a non-nil poke with a block number.
isPokeChallengeable(blockErr, ts, now, challengePeriod, sigErr, valid) ==
    IF blockErr THEN FALSE
    ELSE IF ts < now - challengePeriod THEN FALSE
    ELSE IF sigErr THEN FALSE
    ELSE ~valid

\* isPokeChallengeableCalls looking the block up before the nil checks.
isPokeChallengeableCalls_LooksUpFirst(poke, blockErr, ts, now, challengePeriod, sigErr, valid) ==
    [result |-> IF poke = Nil \/ Val(poke).BlockNumber = Nil
                THEN FALSE
                ELSE isPokeChallengeable(blockErr, ts, now, challengePeriod, sigErr, valid),
     calls  |-> <<"BlockByNumber">> \o
                (IF sigCalled(blockErr, ts, now, challengePeriod)
                 THEN <<"IsPokeSignatureValid">>
                 ELSE <<>>)]

\* isPokeChallengeable on any poke pointer: its result and the provider calls
\* it makes, in order. A nil poke or a nil block number returns before any call.
isPokeChallengeableCalls(poke, blockErr, ts, now, challengePeriod, sigErr, valid) ==
    IF poke = Nil \/ Val(poke).BlockNumber = Nil
    THEN [result |-> FALSE, calls |-> <<>>]
    ELSE [result |-> isPokeChallengeable(blockErr, ts, now, challengePeriod, sigErr, valid),
          calls  |-> <<"BlockByNumber">> \o
                     (IF sigCalled(blockErr, ts, now, challengePeriod)
                      THEN <<"IsPokeSignatureValid">>
                      ELSE <<>>)]

RunInit ==
    /\ \E fromBlock \in 0..MaxBlock : lastProcessedBlock = NewChallenger(fromBlock)
    /\ pc = "Run"
    /\ ctxDone = FALSE
    /\ tickNo = 0
    /\ latestBlockNumber = Nil
    /\ period = 0
    /\ fromBlockNumber = Nil
    /\ pokeLogs = <<>>
    /\ challenges = <<>>
    /\ tickPokes = <<>>
    /\ idx = 0
    /\ lastSpawn = NoSpawn
    /\ tickErr = ""
    /\ inflight = [p \in TickPokeUniverse |-> 0]
    /\ errorsCount = 0
    /\ challengeCounter = 0
    /\ lastScannedBlockGauge = Nil
    /\ wg = 1

\* Leaving executeTick: its locals go out of scope.
DropLocals ==
    /\ latestBlockNumber' = Nil
    /\ period' = 0
    /\ fromBlockNumber' = Nil
    /\ pokeLogs' = <<>>
    /\ challenges' = <<>>
    /\ tickPokes' = <<>>
    /\ idx' = 0
    /\ lastSpawn' = NoSpawn

\* executeTick going back to its first step instead of returning to Run.
Return_Rescans(err) ==
    /\ pc' = "BlockNumber"
    /\ tickErr' = err
    /\ DropLocals

\* executeTick returns err to Run ("" is nil).
Return(err) ==
    /\ pc' = "returned"
    /\ tickErr' = err
    /\ DropLocals

\* executeTick returns the error of the step that failed.
TickFails(step) ==
    /\ Return(step)
    /\ UNCHANGED <<auxVars, wg, lastProcessedBlock, ctxDone, tickNo, inflight, metrics>>

\* Run taking its `if err != nil` branch and going on to the select.
AfterTick_ReturnsOnError ==
    /\ pc = "returned"
    /\ errorsCount' = IF tickErr # "" THEN errorsCount + 1 ELSE errorsCount
    /\ pc' = IF tickErr # "" THEN "done" ELSE "select"
    /\ tickErr' = ""
    /\ UNCHANGED <<auxVars, wg, lastProcessedBlock, ctxDone, tickNo, latestBlockNumber, period,
                   fromBlockNumber, pokeLogs, challenges, tickPokes, idx, lastSpawn,
                   inflight, challengeCounter, lastScannedBlockGauge>>

\* Run after executeTick returned: an error is logged and counted in
\* ErrorsCounter, then Run goes on to the select (first tick and timer ticks alike).
AfterTick ==
    /\ pc = "returned"
    /\ errorsCount' = IF tickErr # "" THEN errorsCount + 1 ELSE errorsCount
    /\ pc' = "select"
    /\ tickErr' = ""
    /\ UNCHANGED <<auxVars, wg, lastProcessedBlock, ctxDone, tickNo, latestBlockNumber, period,
                   fromBlockNumber, pokeLogs, challenges, tickPokes, idx, lastSpawn,
                   inflight, challengeCounter, lastScannedBlockGauge>>

\* Run going to its select without a first tick when the context is
\* already cancelled.
RunFirstTick_ChecksShutdown ==
    /\ pc = "Run"
    /\ pc' = IF ctxDone THEN "select" ELSE "BlockNumber"
    /\ tickNo' = IF ctxDone THEN tickNo ELSE 1
    /\ UNCHANGED <<auxVars, wg, lastProcessedBlock, ctxDone, tickLocals, inflight, metrics>>

\* Run calls executeTick for the first time.
RunFirstTick ==
    /\ pc = "Run"
    /\ pc' = "BlockNumber"
    /\ tickNo' = 1
    /\ UNCHANGED <<auxVars, wg, lastProcessedBlock, ctxDone, tickLocals, inflight, metrics>>

\* The ticker case taken only once no challenge goroutine is running.
TimerTick_WaitsForTasks ==
    /\ pc = "select"
    /\ tickNo < MaxTicks
    /\ \A p \in TickPokeUniverse : inflight[p] = 0
    /\ pc' = "BlockNumber"
    /\ tickNo' = tickNo + 1
    /\ UNCHANGED <<auxVars, wg, lastProcessedBlock, ctxDone, tickLocals, inflight, metrics>>

\* The select of Run takes the ticker case.
TimerTick ==
    /\ pc = "select"
    /\ tickNo < MaxTicks
    /\ pc' = "BlockNumber"
    /\ tickNo' = tickNo + 1
    /\ UNCHANGED <<auxVars, wg, lastProcessedBlock, ctxDone, tickLocals, inflight, metrics>>

\* Run returning without its deferred c.wg.Done().
Terminate_KeepsToken ==
    /\ pc = "select"
    /\ ctxDone
    /\ pc' = "done"
    /\ wg' = wg
    /\ UNCHANGED <<auxVars, lastProcessedBlock, ctxDone, tickNo, tickLocals, inflight, metrics>>

\* The select of Run takes the ctx.Done case: Run returns nil, and its
\* deferred c.wg.Done() releases the Feed's token.
Terminate ==
    /\ pc = "select"
    /\ ctxDone
    /\ pc' = "done"
    /\ wg' = wg - 1
    /\ UNCHANGED <<auxVars, lastProcessedBlock, ctxDone, tickNo, tickLocals, inflight, metrics>>

\* The shutdown signal cancels the context.
Cancel ==
    /\ ~ctxDone
    /\ ctxDone' = TRUE
    /\ UNCHANGED <<auxVars, wg, lastProcessedBlock, pc, tickNo, tickLocals, inflight, metrics>>

\* executeTick: provider.BlockNumber.
BlockNumber ==
    /\ pc = "BlockNumber"
    /\ \/ \E latest \in 0..MaxBlock :
            /\ latestBlockNumber' = Ptr(latest)
            /\ pc' = "GetChallengePeriod"
            /\ UNCHANGED <<auxVars, wg, lastProcessedBlock, ctxDone, tickNo, period, fromBlockNumber,
                           pokeLogs, challenges, tickPokes, idx, lastSpawn, tickErr,
                           inflight, metrics>>
       \/ TickFails("BlockNumber")

\* executeTick: provider.GetChallengePeriod.
GetChallengePeriod ==
    /\ pc = "GetChallengePeriod"
    /\ \/ \E p \in PeriodValues :
            /\ period' = p
            /\ pc' = "GetPokes"
            /\ UNCHANGED <<auxVars, wg, lastProcessedBlock, ctxDone, tickNo, latestBlockNumber,
                           fromBlockNumber, pokeLogs, challenges, tickPokes, idx,
                           lastSpawn, tickErr, inflight, metrics>>
       \/ TickFails("GetChallengePeriod")

\* Logs an eth_getLogs query over [from, to] may hold (none when from > to).
InRange(ev, from, to) == from <= GetBlockNumber(ev) /\ GetBlockNumber(ev) <= to

\* executeTick: getFromBlockNumber and provider.GetPokes; on success the
\* cursor takes the latest block, and the gauge's label lookup (GetFrom) is next.
GetPokes ==
    /\ pc = "GetPokes"
    /\ LET from == getFromBlockNumber(lastProcessedBlock, latestBlockNumber, period)
       IN \/ /\ from.err
             /\ TickFails("getFromBlockNumber")
          \/ /\ ~from.err
             /\ TickFails("GetPokes")
          \/ /\ ~from.err
             /\ \E logs \in PokeLists(0..MaxBlock, TickPokeTags, TickMaxPokes) :
                   /\ \A i \in 1..Len(logs) :
                         InRange(logs[i], Val(from.val), Val(latestBlockNumber))
                   /\ fromBlockNumber' = from.val
                   /\ pokeLogs' = logs
                   /\ lastProcessedBlock' = latestBlockNumber
                   /\ pc' = "LastScannedBlockGauge"
                   /\ UNCHANGED <<auxVars, wg, ctxDone, tickNo, latestBlockNumber, period,
                                  challenges, tickPokes, idx, lastSpawn, tickErr,
                                  inflight, metrics>>

\* executeTick going on past an empty poke list.
ReturnsAfterGetPokes_Never(logs) == FALSE

\* executeTick: `if len(pokeLogs) == 0 { return nil }`.
ReturnsAfterGetPokes(logs) == Len(logs) = 0

\* The gauge taking the first block of the scanned range.
SetLastScannedBlockGauge_FromBlock ==
    /\ pc = "LastScannedBlockGauge"
    /\ lastScannedBlockGauge' = fromBlockNumber
    /\ IF ReturnsAfterGetPokes(pokeLogs)
       THEN Return("")
       ELSE /\ pc' = "GetSuccessfulChallenges"
            /\ UNCHANGED tickLocals
    /\ UNCHANGED <<auxVars, wg, lastProcessedBlock, ctxDone, tickNo, inflight, errorsCount,
                   challengeCounter>>

\* executeTick: the gauge takes the latest block (its label lookup GetFrom
\* has answered), then the return on an empty poke list.
SetLastScannedBlockGauge ==
    /\ pc = "LastScannedBlockGauge"
    /\ lastScannedBlockGauge' = latestBlockNumber
    /\ IF ReturnsAfterGetPokes(pokeLogs)
       THEN Return("")
       ELSE /\ pc' = "GetSuccessfulChallenges"
            /\ UNCHANGED tickLocals
    /\ UNCHANGED <<auxVars, wg, lastProcessedBlock, ctxDone, tickNo, inflight, errorsCount,
                   challengeCounter>>

\* executeTick: provider.GetSuccessfulChallenges and PickUnchallengedPokes.
GetSuccessfulChallenges ==
    /\ pc = "GetSuccessfulChallenges"
    /\ \/ TickFails("GetSuccessfulChallenges")
       \/ \E succ \in SuccessLists(0..MaxBlock, TickMaxSucc) :
            /\ \A i \in 1..Len(succ) :
                  InRange(succ[i], Val(fromBlockNumber), Val(latestBlockNumber))
            /\ LET picked == PickUnchallengedPokes(pokeLogs, succ)
               IN /\ challenges' = succ
                  /\ tickPokes' = picked
                  /\ idx' = 1
                  /\ UNCHANGED tickErr
                  /\ pc' = "isPokeChallengeable"
            /\ UNCHANGED <<latestBlockNumber, period, fromBlockNumber, pokeLogs, lastSpawn>>
            /\ UNCHANGED <<auxVars, wg, lastProcessedBlock, ctxDone, tickNo, inflight, metrics>>

\* One iteration of the range loop: isPokeChallengeable on tickPokes[idx] and,
\* when it holds, SpawnChallenge (the goroutine starts running).
CheckPoke ==
    /\ pc = "isPokeChallengeable"
    /\ idx <= Len(tickPokes)
    /\ \E blockErr \in BOOLEAN, now \in NowValues, sigErr \in BOOLEAN, valid \in BOOLEAN :
       \E ts \in BlockTimestamps(now, period) :
          LET poke == tickPokes[idx]
              called == sigCalled(blockErr, ts, now, period)
              spawn == isPokeChallengeable(blockErr, ts, now, period, sigErr, valid)
          IN /\ lastSpawn' = IF spawn
                             THEN [spawned |-> TRUE,
                                   poke |-> poke,
                                   blockErr |-> blockErr,
                                   ts |-> ts,
                                   now |-> now,
                                   sigCalled |-> called,
                                   sigErr |-> sigErr,
                                   valid |-> valid]
                             ELSE [spawned |-> FALSE, sigErr |-> called /\ sigErr]
             /\ inflight' = IF spawn
                            THEN [inflight EXCEPT ![poke] = @ + 1]
                            ELSE inflight
    /\ idx' = idx + 1
    /\ UNCHANGED <<auxVars, wg, lastProcessedBlock, pc, ctxDone, tickNo, latestBlockNumber, period,
                   fromBlockNumber, pokeLogs, challenges, tickPokes, tickErr, metrics>>

\* The range loop is over: executeTick returns nil.
TickReturns ==
    /\ pc = "isPokeChallengeable"
    /\ idx > Len(tickPokes)
    /\ Return("")
    /\ UNCHANGED <<auxVars, wg, lastProcessedBlock, ctxDone, tickNo, inflight, metrics>>

\* A challenge goroutine ends: ChallengePoke returned a confirmed transaction
\* (the challenge counter is incremented) or an error (logged only).
ChallengeDone ==
    \E poke \in TickPokeUniverse :
        /\ inflight[poke] > 0
        /\ inflight' = [inflight EXCEPT ![poke] = @ - 1]
        /\ \/ challengeCounter' = challengeCounter + 1
           \/ UNCHANGED challengeCounter
        /\ UNCHANGED <<auxVars, wg, lastProcessedBlock, pc, ctxDone, tickNo, tickLocals, errorsCount,
                       lastScannedBlockGauge>>

Next ==
    \/ RunFirstTick
    \/ TimerTick
    \/ Terminate
    \/ Cancel
    \/ BlockNumber
    \/ GetChallengePeriod
    \/ GetPokes
    \/ SetLastScannedBlockGauge
    \/ GetSuccessfulChallenges
    \/ CheckPoke
    \/ TickReturns
    \/ AfterTick
    \/ ChallengeDone

\* The Run loop before its first tick and with no cursor: its variables under
\* the specifications that do not run it.
RunIdle == RunInit /\ lastProcessedBlock = Nil

Init == RunInit /\ PickIdle /\ FromIdle /\ PredIdle /\ CpIdle /\ ScanIdle /\ FeedsIdle /\ WaitIdle /\ ProvIdle

Spec == Init /\ [][Next]_vars

\* Every call of a tick returns (the context or the transport ends it), Run
\* then goes on, and the select, whose ctx.Done case is ready at every visit
\* once the context is cancelled, does not pass that case over for ever.
Fairness ==
    /\ WF_vars(RunFirstTick)
    /\ WF_vars(BlockNumber)
    /\ WF_vars(GetChallengePeriod)
    /\ WF_vars(GetPokes)
    /\ WF_vars(SetLastScannedBlockGauge)
    /\ WF_vars(GetSuccessfulChallenges)
    /\ WF_vars(CheckPoke)
    /\ WF_vars(TickReturns)
    /\ WF_vars(AfterTick)
    /\ SF_vars(Terminate)

SpecLive == Spec /\ Fairness

\* =====================================================================
\* PickUnchallengedPokes on drawn inputs
\* =====================================================================
InitPick == PickInit /\ RunIdle /\ FromIdle /\ PredIdle /\ CpIdle /\ ScanIdle /\ FeedsIdle /\ WaitIdle /\ ProvIdle

\* One call of PickUnchallengedPokes on the drawn input.
Pick ==
    /\ ~pickDone
    /\ pickResult' = PickUnchallengedPokes(pickPokes, pickChallenges)
    /\ pickDone' = TRUE
    /\ UNCHANGED <<pickPokes, pickChallenges, runVars, fromVars, predVars, cpVars, scanVars, feedVars, waitVars, provVars>>

SpecPick == InitPick /\ [][Pick]_vars

\* =====================================================================
\* getFromBlockNumber on drawn inputs
\* =====================================================================
\* Highest value of a uint16, the type of the challenge period.
MaxUint16 == 65535

\* Challenge periods: around one slot, the period of the tests, the extremes.
FromPeriods == {0, slotPeriodInSec - 1, slotPeriodInSec, slotPeriodInSec + 1, 600, MaxUint16}

\* Latest blocks: the lowest ones, those around 600 / 12 and MaxUint16 / 12,
\* and the one of the tests.
FromLatests == (0..MaxFromLatest) \cup {49, 50, 51, 1000, 5460, 5461, 5462}

InitFrom ==
    /\ fromCursor \in {Nil} \cup {Ptr(n) : n \in 0..MaxFromLatest}
    /\ fromLatest \in {Nil} \cup {Ptr(n) : n \in FromLatests}
    /\ fromPeriod \in FromPeriods
    /\ fromResult = [err |-> FALSE, val |-> Nil]
    /\ fromDone = FALSE
    /\ RunIdle /\ PickIdle /\ PredIdle /\ CpIdle /\ ScanIdle /\ FeedsIdle /\ WaitIdle /\ ProvIdle

\* One call of getFromBlockNumber on the drawn input.
CallGetFromBlockNumber ==
    /\ ~fromDone
    /\ fromResult' = getFromBlockNumber(fromCursor, fromLatest, fromPeriod)
    /\ fromDone' = TRUE
    /\ UNCHANGED <<fromCursor, fromLatest, fromPeriod, runVars, pickVars, predVars, cpVars, scanVars, feedVars, waitVars, provVars>>

SpecFrom == InitFrom /\ [][CallGetFromBlockNumber]_vars

\* =====================================================================
\* isPokeChallengeable on drawn inputs
\* =====================================================================
\* The poke pointers: nil, a poke without a block number, a poke of block 1.
PredPokes == {Nil, Ptr([BlockNumber |-> Nil]), Ptr([BlockNumber |-> Ptr(1)])}

PredNows == {1000}

PredPeriods == {0, 600}

\* Block timestamps: around the start of the window, the two of the tests
\* (500 and 700 seconds old), the present and a block ahead of the local clock.
PredTimestamps(now, challengePeriod) ==
    {now - challengePeriod - 1, now - challengePeriod, now - challengePeriod + 1,
     now - 700, now - 500, now, now + 1}

InitPred ==
    /\ predPoke \in PredPokes
    /\ predBlockErr \in BOOLEAN
    /\ predNow \in PredNows
    /\ predPeriod \in PredPeriods
    /\ predTs \in PredTimestamps(predNow, predPeriod)
    /\ predSigErr \in BOOLEAN
    /\ predValid \in BOOLEAN
    /\ predResult = FALSE
    /\ predCalls = <<>>
    /\ predDone = FALSE
    /\ RunIdle /\ PickIdle /\ FromIdle /\ CpIdle /\ ScanIdle /\ FeedsIdle /\ WaitIdle /\ ProvIdle

\* One call of isPokeChallengeable on the drawn poke.
CallIsPokeChallengeable ==
    /\ ~predDone
    /\ LET r == isPokeChallengeableCalls(predPoke, predBlockErr, predTs, predNow,
                                         predPeriod, predSigErr, predValid)
       IN /\ predResult' = r.result
          /\ predCalls' = r.calls
    /\ predDone' = TRUE
    /\ UNCHANGED <<predPoke, predBlockErr, predTs, predNow, predPeriod, predSigErr,
                   predValid, runVars, pickVars, fromVars, cpVars, scanVars, feedVars, waitVars, provVars>>

SpecPred == InitPred /\ [][CallIsPokeChallengeable]_vars

\* =====================================================================
\* One challenge goroutine: SpawnChallenge, ChallengePoke and the
\* confirmation wait on each endpoint
\* =====================================================================
\* Hashes SendTransaction may return.
TxHashes == {"0xa1", "0xb2"}

\* What SendTransaction returns: an error, no error with a nil hash, a hash.
SendOutcomes == {"err", "nilHash"} \cup TxHashes

\* What one GetTransactionReceipt of the wait loop returns and the loop goes
\* on after: an error, a nil receipt, a receipt with a nil status or a zero hash.
PollAgainOutcomes == {"err", "nil", "unconfirmed"}

\* Receipts that end the wait: status and hash set, the status failed or successful.
ReceiptOutcomes == {"status0", "status1"}

\* types.ZeroAddress.
ZeroAddress == "0x0000000000000000000000000000000000000000"

\* What client.Accounts answers to GetFrom: an error, an empty list, the
\* signer's address alone, or with another account after or before it.
AccountsOutcomes == {"err", "none", "signer", "signer,other", "other,signer"}

\* The error of an answer of client.Accounts.
AccountsErr(answer) == answer = "err"

\* The account list of an answer of client.Accounts.
AccountsList(answer) ==
    CASE answer = "signer" -> <<"signer">>
      [] answer = "signer,other" -> <<"signer", "other">>
      [] answer = "other,signer" -> <<"other", "signer">>
      [] OTHER -> <<>>

\* GetFrom returning the last account of the list.
GetFrom_Last(accounts) ==
    IF AccountsErr(accounts) THEN ZeroAddress
    ELSE IF Len(AccountsList(accounts)) = 0 THEN ZeroAddress
    ELSE AccountsList(accounts)[Len(AccountsList(accounts))]

\* GetFrom: the first account, or the zero address on an error or an empty list.
GetFrom(accounts) ==
    IF AccountsErr(accounts) THEN ZeroAddress
    ELSE IF Len(AccountsList(accounts)) = 0 THEN ZeroAddress
    ELSE AccountsList(accounts)[1]

\* (*types.Hash).String() as a label value.
HashString(hash) == IF hash = Nil THEN "nil" ELSE Val(hash)

CpAt(client, at) == [client |-> client, at |-> at]

CpCall(client, call, out) == [client |-> client, call |-> call, out |-> out]

\* The calls of one kind made so far on one client.
CpCalls(client, call) ==
    SelectSeq(cpLog, LAMBDA c : c.client = client /\ c.call = call)

\* The hash the SendTransaction of this client returned.
CpHash(client) == CpCalls(client, "SendTransaction")[1].out

\* ChallengePoke always starting on the mainnet client.
FirstClient_AlwaysMainnet(flashbot) == "client"

\* ChallengePoke: `if s.flashbotClient == nil` picks the endpoint tried first.
FirstClient(flashbot) == IF flashbot THEN "flashbotClient" ELSE "client"

\* ChallengePoke returning the error of a failed flashbots attempt.
AttemptFailed_NoFallback(client) ==
    /\ cpPc' = CpAt("", "returned")
    /\ cpResult' = [err |-> TRUE, hash |-> Nil]

\* challengePokeUsing<client> returned an error: after flashbots ChallengePoke
\* goes on to challengePokeUsingMainnet, whose error it returns.
AttemptFailed(client) ==
    IF client = "flashbotClient"
    THEN /\ cpPc' = CpAt("client", "SendTransaction")
         /\ UNCHANGED cpResult
    ELSE /\ cpPc' = CpAt("", "returned")
         /\ cpResult' = [err |-> TRUE, hash |-> Nil]

\* challengePokeUsing<client> returned its hash: ChallengePoke returns it.
AttemptConfirmed(client) ==
    /\ cpPc' = CpAt("", "returned")
    /\ cpResult' = [err |-> FALSE, hash |-> Ptr(CpHash(client))]

InitChallenge ==
    /\ cpFlashbot \in BOOLEAN
    /\ cpPc = CpAt("", "SpawnChallenge")
    /\ cpLog = <<>>
    /\ cpResult = [err |-> FALSE, hash |-> Nil]
    /\ cpIncs = <<>>
    /\ RunIdle /\ PickIdle /\ FromIdle /\ PredIdle /\ ScanIdle /\ FeedsIdle /\ WaitIdle /\ ProvIdle

\* The goroutine calls ChallengePoke, which picks its first endpoint.
CallChallengePoke ==
    /\ cpPc.at = "SpawnChallenge"
    /\ cpPc' = CpAt(FirstClient(cpFlashbot), "SendTransaction")
    /\ UNCHANGED <<cpFlashbot, cpLog, cpResult, cpIncs, runVars, pickVars, fromVars, predVars, scanVars, feedVars, waitVars, provVars>>

\* challengePokeUsingFlashbots / challengePokeUsingMainnet: SendTransaction.
SendTransaction ==
    /\ cpPc.at = "SendTransaction"
    /\ \E out \in SendOutcomes :
          /\ cpLog' = Append(cpLog, CpCall(cpPc.client, "SendTransaction", out))
          /\ IF out = "err"
             THEN AttemptFailed(cpPc.client)
             ELSE cpPc' = CpAt(cpPc.client, "WaitForTxConfirmation") /\ UNCHANGED cpResult
    /\ UNCHANGED <<cpFlashbot, cpIncs, runVars, pickVars, fromVars, predVars, scanVars, feedVars, waitVars, provVars>>

\* WaitForTxConfirmation on a nil hash: an error before any poll.
WaitNilHash ==
    /\ cpPc.at = "WaitForTxConfirmation"
    /\ CpHash(cpPc.client) = "nilHash"
    /\ cpLog' = Append(cpLog, CpCall(cpPc.client, "WaitForTxConfirmation", "nilHash"))
    /\ AttemptFailed(cpPc.client)
    /\ UNCHANGED <<cpFlashbot, cpIncs, runVars, pickVars, fromVars, predVars, scanVars, feedVars, waitVars, provVars>>

\* WaitForTxConfirmation: the ticker case, one GetTransactionReceipt.
WaitPoll ==
    /\ cpPc.at = "WaitForTxConfirmation"
    /\ CpHash(cpPc.client) # "nilHash"
    /\ Len(CpCalls(cpPc.client, "GetTransactionReceipt")) < MaxPolls
    /\ \E out \in PollAgainOutcomes \cup ReceiptOutcomes :
          /\ cpLog' = Append(cpLog, CpCall(cpPc.client, "GetTransactionReceipt", out))
          /\ IF out \in ReceiptOutcomes
             THEN AttemptConfirmed(cpPc.client)
             ELSE UNCHANGED <<cpPc, cpResult>>
    /\ UNCHANGED <<cpFlashbot, cpIncs, runVars, pickVars, fromVars, predVars, scanVars, feedVars, waitVars, provVars>>

\* WaitForTxConfirmation: the ctx.Done case (the timeout, or the shutdown).
WaitCtxDone ==
    /\ cpPc.at = "WaitForTxConfirmation"
    /\ CpHash(cpPc.client) # "nilHash"
    /\ cpLog' = Append(cpLog, CpCall(cpPc.client, "WaitForTxConfirmation", "ctxDone"))
    /\ AttemptFailed(cpPc.client)
    /\ UNCHANGED <<cpFlashbot, cpIncs, runVars, pickVars, fromVars, predVars, scanVars, feedVars, waitVars, provVars>>

\* SpawnChallenge counting on the error branch too.
CountsChallenge_Always(err) == TRUE

\* SpawnChallenge: `if err != nil { ...; return }` before the counter.
CountsChallenge(err) == ~err

\* The goroutine after ChallengePoke returned: on an error it logs and ends,
\* else it increments ChallengeCounter with the Feed address, GetFrom and the hash.
ChallengeEnds ==
    /\ cpPc.at = "returned"
    /\ cpPc' = CpAt("", "done")
    /\ IF CountsChallenge(cpResult.err)
       THEN \E accounts \in AccountsOutcomes :
               /\ cpLog' = Append(cpLog, CpCall("client", "Accounts", accounts))
               /\ cpIncs' = Append(cpIncs, [address |-> "feed",
                                            from    |-> GetFrom(accounts),
                                            txHash  |-> HashString(cpResult.hash)])
       ELSE UNCHANGED <<cpLog, cpIncs>>
    /\ UNCHANGED <<cpFlashbot, cpResult, runVars, pickVars, fromVars, predVars, scanVars, feedVars, waitVars, provVars>>

NextChallenge ==
    \/ CallChallengePoke
    \/ SendTransaction
    \/ WaitNilHash
    \/ WaitPoll
    \/ WaitCtxDone
    \/ ChallengeEnds

SpecChallenge == InitChallenge /\ [][NextChallenge]_vars

\* The context of the wait is done when its timeout has elapsed at the latest
\* and the select then takes that case; a nil hash returns at once.
FairnessChallenge ==
    /\ WF_vars(WaitCtxDone)
    /\ WF_vars(WaitNilHash)

SpecChallengeLive == SpecChallenge /\ FairnessChallenge

\* =====================================================================
\* executeTick as one step (SpecScan)
\* =====================================================================
\* One run of executeTick from the given cursor, on the answers the provider
\* gives: how it ended (the step whose error it returned, "" for nil), the
\* latest block it read, the first block it asked GetPokes for, the number
\* of poke logs it got and the number of challenge tasks it spawned.
executeTick(cursor, blockErr, latest, periodErr, challengePeriod, pokesErr, nPokes, successErr, nSpawned) ==
    IF blockErr
    THEN [step |-> "BlockNumber", latest |-> Nil, from |-> Nil, pokes |-> 0, spawned |-> 0]
    ELSE IF periodErr
    THEN [step |-> "GetChallengePeriod", latest |-> Ptr(latest), from |-> Nil,
          pokes |-> 0, spawned |-> 0]
    ELSE LET from == getFromBlockNumber(cursor, Ptr(latest), challengePeriod)
         IN IF from.err
            THEN [step |-> "getFromBlockNumber", latest |-> Ptr(latest), from |-> Nil,
                  pokes |-> 0, spawned |-> 0]
            ELSE IF pokesErr
            THEN [step |-> "GetPokes", latest |-> Ptr(latest), from |-> from.val,
                  pokes |-> 0, spawned |-> 0]
            ELSE IF nPokes = 0
            THEN [step |-> "", latest |-> Ptr(latest), from |-> from.val,
                  pokes |-> 0, spawned |-> 0]
            ELSE IF successErr
            THEN [step |-> "GetSuccessfulChallenges", latest |-> Ptr(latest),
                  from |-> from.val, pokes |-> nPokes, spawned |-> 0]
            ELSE [step |-> "", latest |-> Ptr(latest), from |-> from.val,
                  pokes |-> nPokes, spawned |-> nSpawned]

\* The tick got past GetPokes.
PokesFetched(tick) == tick.step \in {"", "GetSuccessfulChallenges"}

\* The cursor taking the latest block as soon as it is read.
CursorAfter_LatestRead(cursor, tick) ==
    IF tick.latest # Nil THEN tick.latest ELSE cursor

\* c.lastProcessedBlock after the tick: the latest block once GetPokes
\* succeeded, untouched otherwise.
CursorAfter(cursor, tick) ==
    IF PokesFetched(tick) THEN tick.latest ELSE cursor

\* LastScannedBlockGauge after the tick: set right after the cursor.
GaugeAfter(gauge, tick) ==
    IF PokesFetched(tick) THEN tick.latest ELSE gauge

\* The blocks of the tick's poke range below its latest block.
EarlierBlocks(tick) == {b \in 0..MaxScanBlock : Val(tick.from) <= b /\ b < Val(tick.latest)}

\* The blocks GetPokes of the tick was asked for.
Range(tick) == {b \in (0 - 1)..MaxScanBlock : Val(tick.from) <= b /\ b <= Val(tick.latest)}

\* Successful poke fetches in a row over the block the cursor ends on: one
\* more when the tick ends on the block the cursor was on, one when it moves
\* to another block of its range, none when its range is empty.
ScansAfter(scans, cursor, tick) ==
    IF ~PokesFetched(tick) THEN scans
    ELSE IF Range(tick) = {} THEN 0
    ELSE IF cursor = tick.latest THEN (IF scans < MaxScans THEN scans + 1 ELSE scans)
    ELSE 1

\* Values of the --from-block flag, a signed 64-bit integer: the default 0,
\* block numbers, and a negative one.
SeedValues == {0 - 1} \cup (0..MaxScanBlock)

InitScan ==
    /\ \E fromBlock \in SeedValues : scCursor = NewChallenger(fromBlock)
    /\ scGauge = Nil
    /\ scPrev = NoTick
    /\ scLast = NoTick
    /\ scLost = {}
    /\ scScans = 0
    /\ RunIdle /\ PickIdle /\ FromIdle /\ PredIdle /\ CpIdle /\ FeedsIdle /\ WaitIdle /\ ProvIdle

\* The answers of the provider to the calls of one tick: a call the tick
\* does not come to has no answer (the fields keep a default), GetPokes fails
\* or returns logs, and a task is spawned for some of the logs.
ProviderAnswers ==
    {a \in [blockErr : BOOLEAN, latest : 0..MaxScanBlock, periodErr : BOOLEAN,
            period : PeriodValues, pokesErr : BOOLEAN, nPokes : 0..MaxScanPokes,
            successErr : BOOLEAN, nSpawned : 0..MaxScanPokes] :
        /\ a.blockErr => (a.latest = 0 /\ ~a.periodErr)
        /\ (a.blockErr \/ a.periodErr) => (a.period = slotPeriodInSec /\ ~a.pokesErr)
        /\ (a.blockErr \/ a.periodErr \/ a.pokesErr) => a.nPokes = 0
        /\ a.nPokes = 0 => ~a.successErr
        /\ (a.nPokes = 0 \/ a.successErr) => a.nSpawned = 0
        /\ a.nSpawned <= a.nPokes}

\* What one run of executeTick from the given cursor may come to, over the
\* answers of the provider. GetPokes returns logs of the range it was asked
\* for only (none when the range is empty).
TickOutcomes(cursor) ==
    {tick \in {executeTick(cursor, a.blockErr, a.latest, a.periodErr, a.period,
                           a.pokesErr, a.nPokes, a.successErr, a.nSpawned) :
                   a \in ProviderAnswers} :
        tick.pokes > 0 => Val(tick.from) <= Val(tick.latest)}

\* Run calls executeTick (the first time, or on a ticker event).
ScanTick ==
    \E tick \in TickOutcomes(scCursor) :
        /\ scCursor' = CursorAfter(scCursor, tick)
        /\ scGauge' = GaugeAfter(scGauge, tick)
        /\ scPrev' = scLast
        /\ scLast' = tick
        /\ scLost' = IF tick.step = "GetSuccessfulChallenges"
                      THEN scLost \cup EarlierBlocks(tick)
                      ELSE scLost
        /\ scScans' = ScansAfter(scScans, scCursor, tick)
        /\ UNCHANGED <<runVars, pickVars, fromVars, predVars, cpVars, feedVars, waitVars, provVars>>

SpecScan == InitScan /\ [][ScanTick]_vars

\* =====================================================================
\* Two Feeds (SpecFeeds)
\* =====================================================================
\* One cursor behind every Challenger.
FeedCursors_Shared(cursors, f, tick) ==
    [g \in Feeds |-> CursorAfter(cursors[f], tick)]

\* The cursors after a tick of Feed f: every Challenger is a struct of its
\* own, and executeTick assigns the field of its receiver only.
FeedCursors(cursors, f, tick) ==
    [cursors EXCEPT ![f] = CursorAfter(@, tick)]

\* main: wg.Add(1), NewChallenger(ctx, address, p, opts.FromBlock, &wg) and
\* `go c.Run()` for each address; all get the same seed.
InitFeeds ==
    /\ \E fromBlock \in 0..MaxScanBlock : fdCursor = [f \in Feeds |-> NewChallenger(fromBlock)]
    /\ fdPc = [f \in Feeds |-> "Run"]
    /\ fdTicks = [f \in Feeds |-> 0]
    /\ fdInflight = [f \in Feeds |-> 0]
    /\ fdCtxDone = FALSE
    /\ fdWg = Cardinality(Feeds)
    /\ RunIdle /\ PickIdle /\ FromIdle /\ PredIdle /\ CpIdle /\ ScanIdle /\ WaitIdle /\ ProvIdle

\* Run of Feed f calls executeTick: at once when it starts, then on the
\* ticker events of its own ticker.
FeedTickStarts(f) ==
    /\ fdPc[f] \in {"Run", "select"}
    /\ fdTicks[f] < MaxFeedTicks
    /\ fdPc' = [fdPc EXCEPT ![f] = "executeTick"]
    /\ fdTicks' = [fdTicks EXCEPT ![f] = @ + 1]
    /\ UNCHANGED <<fdCursor, fdInflight, fdCtxDone, fdWg>>
    /\ UNCHANGED <<runVars, pickVars, fromVars, predVars, cpVars, scanVars, waitVars, provVars>>

\* executeTick of Feed f returns, with or without an error: its cursor is
\* set if it got past GetPokes and the tasks it spawned are running.
FeedTickReturns(f) ==
    /\ fdPc[f] = "executeTick"
    /\ \E tick \in TickOutcomes(fdCursor[f]) :
          /\ fdCursor' = FeedCursors(fdCursor, f, tick)
          /\ fdInflight' = [fdInflight EXCEPT ![f] = @ + tick.spawned]
    /\ fdPc' = [fdPc EXCEPT ![f] = "select"]
    /\ UNCHANGED <<fdTicks, fdCtxDone, fdWg>>
    /\ UNCHANGED <<runVars, pickVars, fromVars, predVars, cpVars, scanVars, waitVars, provVars>>

\* A challenge goroutine of Feed f ends, confirmed or failed.
FeedTaskEnds(f) ==
    /\ fdInflight[f] > 0
    /\ fdInflight' = [fdInflight EXCEPT ![f] = @ - 1]
    /\ UNCHANGED <<fdCursor, fdPc, fdTicks, fdCtxDone, fdWg>>
    /\ UNCHANGED <<runVars, pickVars, fromVars, predVars, cpVars, scanVars, waitVars, provVars>>

\* The select of Feed f takes the ctx.Done case: Run returns and its
\* deferred c.wg.Done() releases the token of the Feed.
FeedTerminates(f) ==
    /\ fdPc[f] = "select"
    /\ fdCtxDone
    /\ fdPc' = [fdPc EXCEPT ![f] = "done"]
    /\ fdWg' = fdWg - 1
    /\ UNCHANGED <<fdCursor, fdTicks, fdInflight, fdCtxDone>>
    /\ UNCHANGED <<runVars, pickVars, fromVars, predVars, cpVars, scanVars, waitVars, provVars>>

\* The shutdown signal cancels the context of main.
FeedsCancel ==
    /\ ~fdCtxDone
    /\ fdCtxDone' = TRUE
    /\ UNCHANGED <<fdCursor, fdPc, fdTicks, fdInflight, fdWg>>
    /\ UNCHANGED <<runVars, pickVars, fromVars, predVars, cpVars, scanVars, waitVars, provVars>>

NextFeeds ==
    \/ \E f \in Feeds : FeedTickStarts(f)
    \/ \E f \in Feeds : FeedTickReturns(f)
    \/ \E f \in Feeds : FeedTaskEnds(f)
    \/ \E f \in Feeds : FeedTerminates(f)
    \/ FeedsCancel

SpecFeeds == InitFeeds /\ [][NextFeeds]_vars

\* =====================================================================
\* WaitForTxConfirmation (SpecWait)
\* =====================================================================
\* What one GetTransactionReceipt may answer: an error, a nil receipt, a
\* receipt with a nil status, with a zero transaction hash, with both, and a
\* receipt with a hash and the status of a reverted or successful transaction.
ReceiptAnswers ==
    {"err", "nil", "nilStatus", "zeroHash", "nilStatusZeroHash", "status0", "status1"}

\* The error of the answer.
ReceiptErr(answer) == answer = "err"

\* The receipt of the answer is nil.
ReceiptIsNil(answer) == answer \in {"err", "nil"}

\* receipt.Status of the answer: Nil, or a pointer to 0 (reverted) or 1.
ReceiptStatus(answer) ==
    CASE answer = "status0" -> Ptr(0)
      [] answer \in {"status1", "zeroHash"} -> Ptr(1)
      [] OTHER -> Nil

\* receipt.TransactionHash.IsZero() of the answer.
ReceiptHashIsZero(answer) == answer \in {"zeroHash", "nilStatusZeroHash"}

\* The poll returning the receipts of successful transactions only.
ReturnsReceipt_SuccessOnly(answer) ==
    /\ ~ReceiptErr(answer)
    /\ ~ReceiptIsNil(answer)
    /\ ReceiptStatus(answer) = Ptr(1)
    /\ ~ReceiptHashIsZero(answer)

\* The ticker case after GetTransactionReceipt: the three `continue` are not
\* taken and the receipt is returned.
ReturnsReceipt(answer) ==
    /\ ~ReceiptErr(answer)
    /\ ~ReceiptIsNil(answer)
    /\ ~(ReceiptStatus(answer) = Nil \/ ReceiptHashIsZero(answer))

InitWait ==
    /\ wtClient \in {"nil", "client"}
    /\ wtHash \in {Nil} \cup {Ptr(h) : h \in TxHashes}
    /\ wtPc = "call"
    /\ wtPolls = <<>>
    /\ wtResult = [err |-> "", receipt |-> Nil]
    /\ RunIdle /\ PickIdle /\ FromIdle /\ PredIdle /\ CpIdle /\ ScanIdle /\ FeedsIdle /\ ProvIdle

\* WaitForTxConfirmation is entered: the two nil checks, then the loop.
WaitEnters ==
    /\ wtPc = "call"
    /\ IF wtClient = "nil"
       THEN /\ wtPc' = "returned"
            /\ wtResult' = [err |-> "ethereum client not set", receipt |-> Nil]
       ELSE IF wtHash = Nil
       THEN /\ wtPc' = "returned"
            /\ wtResult' = [err |-> "tx hash is nil", receipt |-> Nil]
       ELSE /\ wtPc' = "select"
            /\ UNCHANGED wtResult
    /\ UNCHANGED <<wtClient, wtHash, wtPolls>>
    /\ UNCHANGED <<runVars, pickVars, fromVars, predVars, cpVars, scanVars, feedVars, provVars>>

\* The ticker case: one GetTransactionReceipt, whose receipt is returned or
\* which is followed by the next round of the loop.
WaitTicks ==
    /\ wtPc = "select"
    /\ Len(wtPolls) < MaxPolls
    /\ \E answer \in ReceiptAnswers :
          /\ wtPolls' = Append(wtPolls, answer)
          /\ IF ReturnsReceipt(answer)
             THEN /\ wtPc' = "returned"
                  /\ wtResult' = [err |-> "", receipt |-> Ptr(answer)]
             ELSE UNCHANGED <<wtPc, wtResult>>
    /\ UNCHANGED <<wtClient, wtHash>>
    /\ UNCHANGED <<runVars, pickVars, fromVars, predVars, cpVars, scanVars, feedVars, provVars>>

\* The ctx.Done case: the timeout has elapsed or the parent is cancelled.
WaitTimesOut ==
    /\ wtPc = "select"
    /\ wtPc' = "returned"
    /\ wtResult' = [err |-> "failed to wait for transaction confirmation", receipt |-> Nil]
    /\ UNCHANGED <<wtClient, wtHash, wtPolls>>
    /\ UNCHANGED <<runVars, pickVars, fromVars, predVars, cpVars, scanVars, feedVars, provVars>>

NextWait ==
    \/ WaitEnters
    \/ WaitTicks
    \/ WaitTimesOut

SpecWait == InitWait /\ [][NextWait]_vars

\* =====================================================================
\* The read methods of the provider (SpecProvider)
\* =====================================================================
\* The data of a log: that of a poke "a" or "b", or bytes the codec rejects.
LogData == {"a", "b", "bad"}

\* The logs client.GetLogs may answer with.
Logs == {[blk |-> b, data |-> d] : b \in 0..MaxLogBlock, d \in LogData}

\* DecodeOpPokeEvent: an error, or the event with the block number of the log.
DecodeOpPokeEvent(log) ==
    IF log.data = "bad"
    THEN [err |-> TRUE, ev |-> Nil]
    ELSE [err |-> FALSE, ev |-> Ptr(OpPokedEvent(log.blk, log.data))]

\* DecodeOpPokeChallengedSuccessfullyEvent.
DecodeOpPokeChallengedSuccessfullyEvent(log) ==
    IF log.data = "bad"
    THEN [err |-> TRUE, ev |-> Nil]
    ELSE [err |-> FALSE, ev |-> Ptr(OpPokeChallengedSuccessfullyEvent(log.blk))]

\* The decoder of the method.
Decode(fn, log) ==
    IF fn = "GetPokes" THEN DecodeOpPokeEvent(log)
    ELSE DecodeOpPokeChallengedSuccessfullyEvent(log)

\* The loop over the logs from position i on: a log that fails to decode is
\* logged and skipped, the others are appended.
RECURSIVE DecodeAll(_, _, _)
DecodeAll(fn, logs, i) ==
    IF i > Len(logs) THEN <<>>
    ELSE LET decoded == Decode(fn, logs[i])
         IN IF decoded.err
            THEN DecodeAll(fn, logs, i + 1)
            ELSE <<Val(decoded.ev)>> \o DecodeAll(fn, logs, i + 1)

\* GetPokes / GetSuccessfulChallenges returning an error when a log fails
\* to decode.
GetLogsDecoded_FailsOnBadLog(fn, queryErr, logs) ==
    IF queryErr \/ \E i \in 1..Len(logs) : Decode(fn, logs[i]).err
    THEN [err |-> TRUE, val |-> <<>>]
    ELSE [err |-> FALSE, val |-> DecodeAll(fn, logs, 1)]

\* GetPokes / GetSuccessfulChallenges after client.GetLogs answered.
GetLogsDecoded(fn, queryErr, logs) ==
    IF queryErr
    THEN [err |-> TRUE, val |-> <<>>]
    ELSE [err |-> FALSE, val |-> DecodeAll(fn, logs, 1)]

\* What a round of a contract read gives: the arguments fail to encode (no
\* call is made), the call fails, its answer fails to decode, or a value.
ReadFailures == {"encodeErr", "callErr", "decodeErr"}

\* The digests constructPokeMessage may answer.
Digests == {"0xd1", "0xd2"}

\* A call made on the client: the contract method and its argument.
ClientCall(method, arg) == [method |-> method, arg |-> arg]

\* constructPokeMessage: [err, message, calls].
constructPokeMessage(msg) ==
    [err     |-> msg \in ReadFailures,
     message |-> IF msg \in ReadFailures THEN "" ELSE msg,
     calls   |-> IF msg = "encodeErr"
                 THEN <<>>
                 ELSE <<ClientCall("constructPokeMessage", "pokeData")>>]

\* isSchnorrSignatureAcceptable: [err, res, calls].
isSchnorrSignatureAcceptable(message, sig) ==
    [err   |-> sig \in ReadFailures,
     res   |-> sig = "true",
     calls |-> IF sig = "encodeErr"
               THEN <<>>
               ELSE <<ClientCall("isAcceptableSchnorrSignatureNow", message)>>]

\* IsPokeSignatureValid going on to the signature check with an empty
\* message after constructPokeMessage failed.
IsPokeSignatureValid_ChecksAnyway(msg, sig) ==
    LET first == constructPokeMessage(msg)
        second == isSchnorrSignatureAcceptable(first.message, sig)
    IN [err |-> second.err, val |-> second.res, calls |-> first.calls \o second.calls]

\* IsPokeSignatureValid: [err, val, calls].
IsPokeSignatureValid(msg, sig) ==
    LET first == constructPokeMessage(msg)
    IN IF first.err
       THEN [err |-> TRUE, val |-> FALSE, calls |-> first.calls]
       ELSE LET second == isSchnorrSignatureAcceptable(first.message, sig)
            IN [err |-> second.err, val |-> second.res,
                calls |-> first.calls \o second.calls]

InitProvider ==
    /\ pvFn \in {"GetPokes", "GetSuccessfulChallenges", "IsPokeSignatureValid"}
    /\ IF pvFn = "IsPokeSignatureValid"
       THEN /\ pvQueryErr = FALSE
            /\ pvLogs = <<>>
            /\ pvMsg \in ReadFailures \cup Digests
            /\ pvSig \in ReadFailures \cup {"true", "false"}
       ELSE /\ pvQueryErr \in BOOLEAN
            /\ pvLogs \in SeqsUpTo(Logs, MaxLogs)
            /\ pvQueryErr => pvLogs = <<>>
            /\ pvMsg = ""
            /\ pvSig = ""
    /\ pvResult = [err |-> FALSE, val |-> <<>>]
    /\ pvCalls = <<>>
    /\ pvDone = FALSE
    /\ RunIdle /\ PickIdle /\ FromIdle /\ PredIdle /\ CpIdle /\ ScanIdle /\ FeedsIdle /\ WaitIdle

\* One call of GetPokes or GetSuccessfulChallenges.
CallGetLogs ==
    /\ ~pvDone
    /\ pvFn \in {"GetPokes", "GetSuccessfulChallenges"}
    /\ pvResult' = GetLogsDecoded(pvFn, pvQueryErr, pvLogs)
    /\ pvCalls' = <<ClientCall("GetLogs", pvFn)>>
    /\ pvDone' = TRUE
    /\ UNCHANGED <<pvFn, pvQueryErr, pvLogs, pvMsg, pvSig>>
    /\ UNCHANGED <<runVars, pickVars, fromVars, predVars, cpVars, scanVars, feedVars, waitVars>>

\* One call of IsPokeSignatureValid.
CallIsPokeSignatureValid ==
    /\ ~pvDone
    /\ pvFn = "IsPokeSignatureValid"
    /\ LET out == IsPokeSignatureValid(pvMsg, pvSig)
       IN /\ pvResult' = [err |-> out.err, val |-> out.val]
          /\ pvCalls' = out.calls
    /\ pvDone' = TRUE
    /\ UNCHANGED <<pvFn, pvQueryErr, pvLogs, pvMsg, pvSig>>
    /\ UNCHANGED <<runVars, pickVars, fromVars, predVars, cpVars, scanVars, feedVars, waitVars>>

NextProvider ==
    \/ CallGetLogs
    \/ CallIsPokeSignatureValid

SpecProvider == InitProvider /\ [][NextProvider]_vars

\* =====================================================================
\* Properties of the Run loop (checked under Spec)
\* =====================================================================
\* C1: every challenge task a tick spawns is for a poke that GetPokes returned
\* in this tick, that PickUnchallengedPokes returned for this tick's pokes and
\* successes, whose block timestamp was not before now - period when the
\* predicate ran, and for which IsPokeSignatureValid answered false, no error.
C1_SpawnedPokeWasChallengeable ==
    lastSpawn.spawned =>
        /\ pc = "isPokeChallengeable"
        /\ lastSpawn.poke \in Elems(pokeLogs)
        /\ lastSpawn.poke \in Elems(PickUnchallengedPokes(pokeLogs, challenges))
        /\ lastSpawn.poke = tickPokes[idx - 1]
        /\ ~lastSpawn.blockErr
        /\ lastSpawn.ts >= lastSpawn.now - period
        /\ lastSpawn.sigCalled
        /\ ~lastSpawn.sigErr
        /\ ~lastSpawn.valid

\* C1 witness: a tick that fetched two pokes and a success has spawned a task
\* for a poke whose block timestamp is exactly now - period.
C1_Witness ==
    /\ lastSpawn.spawned
    /\ Len(pokeLogs) = 2
    /\ Len(challenges) = 1
    /\ lastSpawn.ts = lastSpawn.now - period
    /\ inflight[lastSpawn.poke] >= 1

\* C2: no poke has two challenge tasks running at once, across ticks: a poke
\* whose challenge from one tick is still running is not challenged again.
C2_NoOverlappingChallenge ==
    \A p \in TickPokeUniverse : inflight[p] <= 1

\* C3: lastProcessedBlock, once set, never decreases, whatever the adapter
\* returns and whatever the seed.
C3_CursorNeverDecreases ==
    [][lastProcessedBlock # Nil =>
          /\ lastProcessedBlock' # Nil
          /\ Val(lastProcessedBlock') >= Val(lastProcessedBlock)]_vars


\* =====================================================================
\* Properties of PickUnchallengedPokes (checked under SpecPick)
\* =====================================================================
IsPoke(ev) == Name(ev) = "OpPoked"

IsSuccess(ev) == Name(ev) = "OpPokeChallengedSuccessfullyEvent"

\* Position of poke e in the duplicate-free list s.
PosIn(s, e) == CHOOSE k \in 1..Len(s) : s[k] = e

\* The elements of res stand in res in the order they have in the list s.
SameRelativeOrder(res, s) ==
    \A i, j \in 1..Len(res) : i < j => PosIn(s, res[i]) < PosIn(s, res[j])

\* Block numbers never decrease along s.
BlockAscending(s) ==
    \A i \in 1..(Len(s) - 1) : GetBlockNumber(s[i]) <= GetBlockNumber(s[i + 1])

\* The merged stream of a call: pokes, then successes, in block order.
MergedStream == SortSlice(pickPokes \o pickChallenges)

\* C4: PickUnchallengedPokes returns the empty list for empty pokes (any
\* successes) and returns the poke list unchanged, same elements in the same
\* order, for empty successes.
C4_EmptyInputs ==
    pickDone =>
        /\ (pickPokes = <<>> => pickResult = <<>>)
        /\ (pickChallenges = <<>> => pickResult = pickPokes)

\* C4 witness: a call with no successes and two or more pokes that are not in
\* block order has returned.
C4_Witness ==
    /\ pickDone
    /\ pickChallenges = <<>>
    /\ Len(pickPokes) >= 2
    /\ ~BlockAscending(pickPokes)
    /\ pickResult = pickPokes

\* C5 as stated: for every poke list, in any order, the result holds only
\* pokes of the input, no success, and keeps the input's relative order.
C5_SubsetInInputOrder ==
    pickDone =>
        /\ Elems(pickResult) \subseteq Elems(pickPokes)
        /\ \A i \in 1..Len(pickResult) : ~IsSuccess(pickResult[i])
        /\ SameRelativeOrder(pickResult, pickPokes)

\* C5 amended: the result holds only pokes of the input and no success; it
\* keeps the input's relative order when the input pokes are block-ascending
\* or there are no successes.
C5_SubsetOrderWhenAscending ==
    pickDone =>
        /\ Elems(pickResult) \subseteq Elems(pickPokes)
        /\ \A i \in 1..Len(pickResult) : ~IsSuccess(pickResult[i])
        /\ (BlockAscending(pickPokes) \/ pickChallenges = <<>>)
               => SameRelativeOrder(pickResult, pickPokes)

\* C5 witness: a block-ascending list of three pokes, two of them in one
\* block, went through the merge with a success and two or more came back.
C5_Witness ==
    /\ pickDone
    /\ Len(pickPokes) = 3
    /\ BlockAscending(pickPokes)
    /\ \E i \in 1..2 : GetBlockNumber(pickPokes[i]) = GetBlockNumber(pickPokes[i + 1])
    /\ pickChallenges # <<>>
    /\ Len(pickResult) >= 2

\* C6: a poke in a block strictly before that of some success, with no other
\* poke between the two in the merged block-ordered stream, is not returned;
\* also when the success is the last merged element, and for a single poke.
C6_PokeBeforeSuccessExcluded ==
    pickDone =>
        \A i, j \in 1..Len(MergedStream) :
            ( /\ i < j
              /\ IsPoke(MergedStream[i])
              /\ IsSuccess(MergedStream[j])
              /\ GetBlockNumber(MergedStream[i]) < GetBlockNumber(MergedStream[j])
              /\ \A k \in (i + 1)..(j - 1) : ~IsPoke(MergedStream[k]) )
            => MergedStream[i] \notin Elems(pickResult)

\* C7: a success in a block below every poke suppresses nothing: one poke
\* with only stale successes is returned (and so goes on to the predicate).
C7_StaleSuccessSuppressesNothing ==
    ( /\ pickDone
      /\ Len(pickPokes) = 1
      /\ pickChallenges # <<>>
      /\ \A i \in 1..Len(pickChallenges) :
            GetBlockNumber(pickChallenges[i]) < GetBlockNumber(pickPokes[1]) )
    => pickResult = pickPokes

C9_SameBlockSuccessSuppresses ==
    ( pickDone /\ Len(pickPokes) >= 2 ) =>
        \A j \in 2..Len(MergedStream) :
            ( /\ IsSuccess(MergedStream[j])
              /\ IsPoke(MergedStream[j - 1])
              /\ GetBlockNumber(MergedStream[j - 1]) = GetBlockNumber(MergedStream[j]) )
            => MergedStream[j - 1] \notin Elems(pickResult)

\* C10: when exactly two pokes share a block and a success of that block
\* follows them in the merged list, at most one of the two is returned,
\* wherever the block stands, also when the success is the last merged element.
C10_AtMostOneOfTwoSurvives ==
    pickDone =>
        \A p, q \in Elems(pickPokes) :
            ( /\ p # q
              /\ GetBlockNumber(p) = GetBlockNumber(q)
              /\ \A r \in Elems(pickPokes) :
                    GetBlockNumber(r) = GetBlockNumber(p) => r \in {p, q}
              /\ \E s \in Elems(pickChallenges) : GetBlockNumber(s) = GetBlockNumber(p) )
            => ~(p \in Elems(pickResult) /\ q \in Elems(pickResult))

\* =====================================================================
\* Properties of one tick and of Run's handling of its result (checked under Spec)
\* =====================================================================
\* C12: in a tick whose poke fetch returns no pokes, executeTick returns right
\* after the fetch and returns nil: no challenge task is spawned, the
\* successful-challenge fetch is not issued, no error is counted.
C12_NoPokesNoWork ==
    [][(pc = "LastScannedBlockGauge" /\ pc' # pc /\ pokeLogs = <<>>)
       => (/\ pc' = "returned"
           /\ tickErr' = ""
           /\ inflight' = inflight
           /\ errorsCount' = errorsCount)]_vars

\* The poke fetch of a first tick has returned no pokes, and returning is all
\* executeTick can do next.
C12_Witness ==
    /\ pc = "LastScannedBlockGauge"
    /\ tickNo = 1
    /\ fromBlockNumber # Nil
    /\ pokeLogs = <<>>
    /\ lastProcessedBlock = latestBlockNumber
    /\ ENABLED SetLastScannedBlockGauge

\* C15: when IsPokeSignatureValid returns an error for a poke (so with the
\* block found and the window open), isPokeChallengeable is false: no task is
\* spawned for that poke, the loop goes on, and the tick returns nil, not an error.
C15_SigErrorSkipsPoke ==
    /\ [][(pc = "isPokeChallengeable" /\ idx' = idx + 1 /\ lastSpawn'.sigErr)
          => (/\ ~lastSpawn'.spawned
              /\ inflight' = inflight
              /\ pc' = "isPokeChallengeable"
              /\ tickErr' = ""
              /\ errorsCount' = errorsCount)]_vars
    /\ [][(pc = "isPokeChallengeable" /\ pc' # "isPokeChallengeable")
          => (pc' = "returned" /\ tickErr' = "")]_vars

\* The loop of a first tick has ended on a poke that met a signature-check
\* error, with no task running.
C15_Witness ==
    /\ pc = "isPokeChallengeable"
    /\ tickNo = 1
    /\ idx > Len(tickPokes)
    /\ lastSpawn = [spawned |-> FALSE, sigErr |-> TRUE]
    /\ tickErr = ""
    /\ \A p \in TickPokeUniverse : inflight[p] = 0

\* C20: when executeTick returns an error, whatever step failed, Run
\* increments the error counter exactly once and goes to its select, for the
\* first tick as for timer ticks; the counter moves at no other time; Run
\* returns only from the select with the context cancelled; and from the
\* select a further tick can be taken.
C20_TickErrorCountedRunGoesOn ==
    /\ [][(pc = "returned" /\ pc' # "returned")
          => (/\ pc' = "select"
              /\ errorsCount' = IF tickErr # "" THEN errorsCount + 1 ELSE errorsCount)]_vars
    /\ [][errorsCount' # errorsCount => (pc = "returned" /\ tickErr # "")]_vars
    /\ [][(pc' = "done" /\ pc # "done") => (pc = "select" /\ ctxDone)]_vars
    /\ []((pc = "select" /\ tickNo < MaxTicks) => ENABLED TimerTick)

\* After a failed first tick (counted once), Run is inside its second tick.
C20_Witness ==
    /\ tickNo = 2
    /\ pc = "GetChallengePeriod"
    /\ errorsCount = 1

\* =====================================================================
\* Properties of getFromBlockNumber (checked under SpecFrom)
\* =====================================================================
\* floor(challengePeriod / 12), by its defining inequalities.
FloorSlots(challengePeriod) ==
    CHOOSE q \in 0..challengePeriod :
        slotPeriodInSec * q <= challengePeriod /\ challengePeriod < slotPeriodInSec * (q + 1)

Max(a, b) == IF a >= b THEN a ELSE b

\* C11: getFromBlockNumber returns the cursor itself when lastProcessedBlock
\* is set. With a nil cursor and a latest block it returns
\* max(0, latest - floor(period / 12)): never negative, 0 whenever latest is
\* below floor(period / 12), 0 for latest 1 with period 600 and 950 for latest
\* 1000 with period 600. With a nil cursor and a nil latest block it returns
\* an error and no block number.
C11_GetFromBlockNumber ==
    fromDone =>
        IF fromCursor # Nil
        THEN fromResult = [err |-> FALSE, val |-> fromCursor]
        ELSE IF fromLatest = Nil
        THEN fromResult.err /\ fromResult.val = Nil
        ELSE LET latest == Val(fromLatest)
                 slots == FloorSlots(fromPeriod)
             IN /\ ~fromResult.err
                /\ fromResult.val # Nil
                /\ Val(fromResult.val) = Max(0, latest - slots)
                /\ Val(fromResult.val) >= 0
                /\ latest < slots => Val(fromResult.val) = 0
                /\ (latest = 1 /\ fromPeriod = 600) => Val(fromResult.val) = 0
                /\ (latest = 1000 /\ fromPeriod = 600) => Val(fromResult.val) = 950

\* The call of the tests that has to go back a whole period: latest 1000, period 600.
C11_Witness ==
    /\ fromDone
    /\ fromCursor = Nil
    /\ fromLatest = Ptr(1000)
    /\ fromPeriod = 600
    /\ fromResult = [err |-> FALSE, val |-> Ptr(950)]

\* =====================================================================
\* Properties of isPokeChallengeable (checked under SpecPred)
\* =====================================================================
\* The poke is there and has a block number.
PredPokeUsable == predPoke # Nil /\ Val(predPoke).BlockNumber # Nil

\* The call was made.
PredCalled(name) == \E i \in 1..Len(predCalls) : predCalls[i] = name

\* C13: isPokeChallengeable returns true exactly when the block lookup
\* succeeds, the block's timestamp is not before now - period,
\* IsPokeSignatureValid returns without error and the validity it reports is
\* false. With period 600: a block 500 seconds old gives true for validity
\* false and false for validity true; a block 700 seconds old gives false
\* whatever the signature check would say.
C13_ChallengeableIff ==
    predDone =>
        /\ predResult <=> /\ PredPokeUsable
                          /\ ~predBlockErr
                          /\ ~(predTs < predNow - predPeriod)
                          /\ ~predSigErr
                          /\ ~predValid
        /\ (PredPokeUsable /\ ~predBlockErr /\ ~predSigErr /\ predPeriod = 600) =>
              /\ (predTs = predNow - 500 /\ ~predValid) => predResult
              /\ (predTs = predNow - 500 /\ predValid) => ~predResult
        /\ (predPeriod = 600 /\ predTs = predNow - 700) => ~predResult

\* The call of the tests that returns true: period 600, block 500 seconds old,
\* signature reported invalid.
C13_Witness ==
    /\ predDone
    /\ PredPokeUsable
    /\ predPeriod = 600
    /\ predTs = predNow - 500
    /\ ~predBlockErr /\ ~predSigErr /\ ~predValid
    /\ predResult

\* The time check passed: the block was found and the signature check was reached.
PredTimeCheckPassed == PredCalled("IsPokeSignatureValid")

\* C14 as stated: the time check passes exactly when now >= timestamp and
\* now < timestamp + period.
C14_WindowHalfOpen ==
    (predDone /\ PredPokeUsable /\ ~predBlockErr) =>
        (PredTimeCheckPassed <=> (predNow >= predTs /\ predNow < predTs + predPeriod))

\* C14: the time check passes exactly when the block's timestamp is not
\* before now - period, that is when now <= timestamp + period: it passes for
\* a timestamp of exactly now - period and for any timestamp later than now.
C14_WindowFromNowMinusPeriod ==
    (predDone /\ PredPokeUsable /\ ~predBlockErr) =>
        /\ PredTimeCheckPassed <=> predNow <= predTs + predPeriod
        /\ (~predSigErr /\ ~predValid) => (predResult <=> predNow <= predTs + predPeriod)
        /\ predTs = predNow - predPeriod => PredTimeCheckPassed
        /\ predTs > predNow => PredTimeCheckPassed

\* A block exactly one period old passes the time check.
C14_Witness ==
    /\ predDone
    /\ PredPokeUsable
    /\ ~predBlockErr
    /\ predPeriod = 600
    /\ predTs = predNow - predPeriod
    /\ PredTimeCheckPassed

\* C16: isPokeChallengeable returns false without calling
\* IsPokeSignatureValid when the poke is nil, when its block number is nil,
\* when BlockByNumber returns an error and when the block's timestamp is
\* before now - period; for a nil poke or a nil block number it makes no
\* BlockByNumber call either.
C16_EarlyReturns ==
    predDone =>
        /\ (~PredPokeUsable \/ predBlockErr \/ predTs < predNow - predPeriod) =>
              ~predResult /\ ~PredCalled("IsPokeSignatureValid")
        /\ ~PredPokeUsable => ~PredCalled("BlockByNumber")

\* A poke without a block number was refused with no provider call, though
\* the provider would have answered in favour of a challenge.
C16_Witness ==
    /\ predDone
    /\ predPoke = Ptr([BlockNumber |-> Nil])
    /\ ~predBlockErr /\ ~predSigErr /\ ~predValid
    /\ predTs = predNow
    /\ ~predResult
    /\ predCalls = <<>>

\* =====================================================================
\* Properties of one challenge goroutine (checked under SpecChallenge)
\* =====================================================================
\* ChallengePoke has returned to the goroutine.
CpReturned == cpPc.at \in {"returned", "done"}

\* The SendTransaction of this client returned an error.
CpSendErr(client) ==
    /\ CpCalls(client, "SendTransaction") # <<>>
    /\ CpHash(client) = "err"

\* The confirmation wait on this client ended at ctx.Done.
CpWaitTimedOut(client) ==
    \E i \in 1..Len(cpLog) :
        cpLog[i] = CpCall(client, "WaitForTxConfirmation", "ctxDone")

\* The confirmation wait on this client returned an error.
CpWaitFailed(client) == CpCalls(client, "WaitForTxConfirmation") # <<>>

\* The confirmation wait on this client returned a receipt.
CpConfirmed(client) ==
    \E i \in 1..Len(cpLog) :
        /\ cpLog[i].client = client
        /\ cpLog[i].call = "GetTransactionReceipt"
        /\ cpLog[i].out \in ReceiptOutcomes

\* The attempt on this client was made and failed, at the send or at the wait.
CpAttemptFailed(client) == CpSendErr(client) \/ CpWaitFailed(client)

\* Every call on the relay client comes before every transaction call on the
\* public client.
CpRelayFirst ==
    \A i, j \in 1..Len(cpLog) :
        (/\ cpLog[i].client = "flashbotClient"
         /\ cpLog[j].client = "client"
         /\ cpLog[j].call # "Accounts") => i < j

\* C17: with a relay configured, when the relay's SendTransaction returns an
\* error or the relay's receipt polling times out, ChallengePoke makes exactly
\* one attempt on the public client, after the relay's: one SendTransaction,
\* followed by its confirmation wait when a hash came back; what that attempt
\* gives is what ChallengePoke returns. No endpoint is sent more than one
\* transaction, so there are at most two.
C17_OnePublicAttemptAfterRelayFailure ==
    /\ \A client \in {"flashbotClient", "client"} :
          Len(CpCalls(client, "SendTransaction")) <= 1
    /\ (/\ CpReturned
        /\ cpFlashbot
        /\ CpSendErr("flashbotClient") \/ CpWaitTimedOut("flashbotClient"))
       => /\ Len(CpCalls("flashbotClient", "SendTransaction")) = 1
          /\ Len(CpCalls("client", "SendTransaction")) = 1
          /\ CpRelayFirst
          /\ ~CpSendErr("client") => (CpWaitFailed("client") \/ CpConfirmed("client"))
          /\ cpResult = IF CpConfirmed("client")
                        THEN [err |-> FALSE, hash |-> Ptr(CpHash("client"))]
                        ELSE [err |-> TRUE, hash |-> Nil]

\* The relay's polling timed out after a poll, the public client confirmed
\* another hash, and that one is returned.
C17_Witness ==
    /\ cpPc.at = "returned"
    /\ cpFlashbot
    /\ CpWaitTimedOut("flashbotClient")
    /\ Len(CpCalls("flashbotClient", "GetTransactionReceipt")) >= 1
    /\ CpConfirmed("client")
    /\ CpHash("client") # CpHash("flashbotClient")
    /\ cpResult = [err |-> FALSE, hash |-> Ptr(CpHash("client"))]

\* C18: ChallengePoke sends on the public client exactly when no relay is
\* configured or the relay attempt failed, at its send or at its
\* confirmation. When the relay confirmed, the public client is sent nothing
\* and the relay's hash is returned. Without a relay the relay client is
\* never called.
C18_PublicIffNoRelayOrRelayFailed ==
    /\ CpCalls("client", "SendTransaction") # <<>>
          => (~cpFlashbot \/ CpAttemptFailed("flashbotClient"))
    /\ CpReturned =>
          ((~cpFlashbot \/ CpAttemptFailed("flashbotClient"))
              => Len(CpCalls("client", "SendTransaction")) = 1)
    /\ (cpFlashbot /\ CpConfirmed("flashbotClient")) =>
          /\ CpCalls("client", "SendTransaction") = <<>>
          /\ CpCalls("client", "GetTransactionReceipt") = <<>>
          /\ cpResult = [err |-> FALSE, hash |-> Ptr(CpHash("flashbotClient"))]
    /\ ~cpFlashbot => \A i \in 1..Len(cpLog) : cpLog[i].client # "flashbotClient"

\* The relay confirmed after a poll that found nothing: the goroutine has
\* ended with the relay's hash and nothing was sent on the public client.
C18_Witness ==
    /\ cpPc.at = "done"
    /\ cpFlashbot
    /\ CpConfirmed("flashbotClient")
    /\ Len(CpCalls("flashbotClient", "GetTransactionReceipt")) = 2
    /\ CpCalls("client", "SendTransaction") = <<>>
    /\ cpResult = [err |-> FALSE, hash |-> Ptr(CpHash("flashbotClient"))]

\* What client.Accounts answered to the GetFrom of the counter's labels.
CpAccounts == CpCalls("client", "Accounts")[1].out

\* C19 as stated: the challenge counter is incremented exactly once for a
\* task whose ChallengePoke returned a confirmed transaction, with the Feed
\* address, the signer and the transaction's hash as labels, and never for a
\* task whose ChallengePoke returned an error.
C19_CountedOnceWithSigner ==
    /\ cpPc.at # "done" => cpIncs = <<>>
    /\ cpPc.at = "done" =>
          cpIncs = IF cpResult.err
                   THEN <<>>
                   ELSE <<[address |-> "feed",
                           from    |-> "signer",
                           txHash  |-> Val(cpResult.hash)]>>

\* C19: the challenge counter is incremented exactly once for a task whose
\* ChallengePoke returned a confirmed transaction, with the Feed address,
\* the address GetFrom returns (the first account of the public client, so
\* the signer's when it comes first, or the zero address when the account
\* lookup fails or finds none) and the transaction's hash as labels,
\* and never for a task whose ChallengePoke returned an error.
C19_CountedOnceWithGetFrom ==
    /\ cpPc.at # "done" => cpIncs = <<>>
    /\ cpPc.at = "done" =>
          cpIncs = IF cpResult.err
                   THEN <<>>
                   ELSE <<[address |-> "feed",
                           from    |-> CASE CpAccounts \in {"signer", "signer,other"}
                                                 -> "signer"
                                              [] CpAccounts = "other,signer" -> "other"
                                              [] OTHER -> ZeroAddress,
                           txHash  |-> Val(cpResult.hash)]>>

\* A task confirmed on the public client after the relay failed was counted
\* once, under the public transaction's hash and the signer's address.
C19_Witness ==
    /\ cpPc.at = "done"
    /\ cpFlashbot
    /\ CpAttemptFailed("flashbotClient")
    /\ ~cpResult.err
    /\ cpIncs = <<[address |-> "feed", from |-> "signer", txHash |-> CpHash("client")]>>

\* =====================================================================
\* Properties of the challenge tasks and of the shutdown (checked under
\* Spec, and under SpecLive for what has to happen eventually)
\* =====================================================================
\* A challenge goroutine of this poke ended in this step.
TaskEnded(p) == inflight'[p] = inflight[p] - 1

\* C21: a challenge task whose ChallengePoke fails is counted in the error
\* counter, and its failure changes neither the cursor nor the position of Run.
C21_TaskFailureCounted ==
    [][(\E p \in TickPokeUniverse : TaskEnded(p) /\ challengeCounter' = challengeCounter)
       => (/\ errorsCount' = errorsCount + 1
           /\ lastProcessedBlock' = lastProcessedBlock
           /\ pc' = pc)]_vars

\* C22: Run returns only from its select with the context cancelled (its
\* only return, of nil), releasing the Feed's wait-group token then and at
\* no other time, so exactly once; and once the context is cancelled and Run
\* is at its select, Run eventually returns.
C22_RunReturnsOnShutdownOnly ==
    /\ [][(pc' = "done" /\ pc # "done")
          => (pc = "select" /\ ctxDone /\ wg = 1 /\ wg' = 0)]_vars
    /\ [][wg' # wg => (pc # "done" /\ pc' = "done")]_vars
    /\ [](wg = IF pc = "done" THEN 0 ELSE 1)
    /\ ((ctxDone /\ pc = "select") ~> (pc = "done"))

\* Run has returned after a shutdown that came during its second tick.
C22_Witness ==
    /\ pc = "done"
    /\ ctxDone
    /\ wg = 0
    /\ tickNo = 2
    /\ lastProcessedBlock # Nil

\* C23: the Feed's wait-group token is released only when no challenge task
\* of the Feed is still running.
C23_TokenReleasedAfterTasks ==
    wg = 0 => \A p \in TickPokeUniverse : inflight[p] = 0

\* A challenge goroutine was started in this step.
TaskSpawned == \E p \in TickPokeUniverse : inflight'[p] = inflight[p] + 1

\* C24: a tick never waits for a challenge task. The step that spawns one
\* moves on to the next candidate at once; at every position of the tick its
\* next step can be taken whatever tasks are running; and from the select a
\* further tick can start while tasks of earlier ticks are still running.
C24_TickNeverWaitsForTask ==
    /\ [][TaskSpawned => (pc = "isPokeChallengeable" /\ pc' = pc /\ idx' = idx + 1)]_vars
    /\ [](pc = "BlockNumber" => ENABLED BlockNumber)
    /\ [](pc = "GetChallengePeriod" => ENABLED GetChallengePeriod)
    /\ [](pc = "GetPokes" => ENABLED GetPokes)
    /\ [](pc = "LastScannedBlockGauge" => ENABLED SetLastScannedBlockGauge)
    /\ [](pc = "GetSuccessfulChallenges" => ENABLED GetSuccessfulChallenges)
    /\ [](pc = "isPokeChallengeable" => (ENABLED CheckPoke \/ ENABLED TickReturns))
    /\ [](pc = "returned" => ENABLED AfterTick)
    /\ []((pc = "select" /\ tickNo < MaxTicks) => ENABLED TimerTick)

\* The second tick has moved the cursor to its latest block while a task the
\* first tick spawned is still running (none has ended yet).
C24_Witness ==
    /\ tickNo = 2
    /\ pc = "LastScannedBlockGauge"
    /\ lastProcessedBlock = latestBlockNumber
    /\ \E p \in TickPokeUniverse : inflight[p] >= 1
    /\ challengeCounter = 0
    /\ errorsCount = 0

\* =====================================================================
\* Properties of the cursor and the gauge across the steps of a tick
\* (checked under Spec)
\* =====================================================================
\* The steps of executeTick up to and including the poke fetch.
EarlySteps == {"BlockNumber", "GetChallengePeriod", "getFromBlockNumber", "GetPokes"}

\* executeTick returns in this step.
TickReturnsNow == pc # "returned" /\ pc' = "returned"

\* C25 as stated: every tick sets the gauge, so a tick that has returned,
\* failed or not, has left the gauge set.
C25_GaugeSetEveryTick ==
    pc = "returned" => lastScannedBlockGauge # Nil

\* C25: every tick whose poke fetch succeeds sets the gauge, right after the
\* cursor, to that tick's latest block, which is the cursor value after the
\* tick; a tick that fails at the latest-block, challenge-period or
\* poke-fetch step returns without touching the gauge, and nothing else
\* touches it.
C25_GaugeSetAfterPokeFetch ==
    /\ [][(pc = "GetPokes" /\ pc' \notin {"GetPokes", "returned"})
          => pc' = "LastScannedBlockGauge"]_vars
    /\ [][(pc = "LastScannedBlockGauge" /\ pc' # pc)
          => (/\ lastScannedBlockGauge' = latestBlockNumber
              /\ lastScannedBlockGauge' = lastProcessedBlock')]_vars
    /\ [][pc # "LastScannedBlockGauge"
          => lastScannedBlockGauge' = lastScannedBlockGauge]_vars
    /\ [][(TickReturnsNow /\ tickErr' \in EarlySteps)
          => lastScannedBlockGauge' = lastScannedBlockGauge]_vars
    /\ []((pc = "returned" /\ tickErr \notin EarlySteps)
          => (lastScannedBlockGauge # Nil /\ lastScannedBlockGauge = lastProcessedBlock))

\* The second tick failed at its poke fetch and left the gauge at the block
\* the first tick set, while the first tick's block is still the cursor.
C25_Witness ==
    /\ tickNo = 2
    /\ pc = "returned"
    /\ tickErr = "GetPokes"
    /\ lastScannedBlockGauge # Nil
    /\ lastScannedBlockGauge = lastProcessedBlock

\* =====================================================================
\* GetFrom, as the goroutine calls it for the counter's labels (checked
\* under SpecChallenge)
\* =====================================================================
\* C26: GetFrom returns the first address of the public client's account
\* list, and the zero address when the account lookup fails or the list is
\* empty; it never fails: the goroutine that called it always gets an address
\* and goes on to count.
C26_GetFromFirstAccountOrZero ==
    (cpPc.at = "done" /\ ~cpResult.err) =>
        /\ Len(CpCalls("client", "Accounts")) = 1
        /\ Len(cpIncs) = 1
        /\ cpIncs[1].from \in {"signer", "other", ZeroAddress}
        /\ (CpAccounts = "err" \/ CpAccounts = "none") => cpIncs[1].from = ZeroAddress
        /\ CpAccounts = "signer" => cpIncs[1].from = "signer"
        /\ CpAccounts = "signer,other" => cpIncs[1].from = "signer"
        /\ CpAccounts = "other,signer" => cpIncs[1].from = "other"

\* The account list had two addresses and the label is the first of them.
C26_Witness ==
    /\ cpPc.at = "done"
    /\ ~cpResult.err
    /\ CpAccounts = "other,signer"
    /\ cpIncs[1].from = "other"

\* =====================================================================
\* PickUnchallengedPokes against the reference algorithm (checked under
\* SpecPick)
\* =====================================================================
\* The events of s in block b, in the order they have in s.
RECURSIVE InBlock(_, _)
InBlock(s, b) ==
    IF Len(s) = 0 THEN <<>>
    ELSE IF GetBlockNumber(s[1]) = b
         THEN <<s[1]>> \o InBlock(SubSeq(s, 2, Len(s)), b)
         ELSE InBlock(SubSeq(s, 2, Len(s)), b)

\* A stable sort of s ascending by block number, for blocks from b on.
RECURSIVE StableFrom(_, _)
StableFrom(s, b) ==
    IF b > MaxPickBlock THEN <<>> ELSE InBlock(s, b) \o StableFrom(s, b + 1)

\* The walk of the reference algorithm over the merged list, from position
\* i on: the last element if a poke is emitted, a poke whose next element is
\* a success is skipped, every other poke is emitted.
RECURSIVE ReferenceWalk(_, _)
ReferenceWalk(merged, i) ==
    IF i > Len(merged) THEN <<>>
    ELSE IF IsSuccess(merged[i]) THEN ReferenceWalk(merged, i + 1)
    ELSE IF i = Len(merged) THEN <<merged[i]>>
    ELSE IF IsSuccess(merged[i + 1]) THEN ReferenceWalk(merged, i + 1)
    ELSE <<merged[i]>> \o ReferenceWalk(merged, i + 1)

\* The reference algorithm: merge pokes then successes, stable-sort, walk.
Reference(pokeList, successList) ==
    ReferenceWalk(StableFrom(pokeList \o successList, 0), 1)

\* C27: for two or more pokes and at least one success, PickUnchallengedPokes
\* returns what the reference algorithm returns, in which a poke directly
\* followed by a success is skipped also when that success is the last
\* merged element.
C27_EqualsReference ==
    (pickDone /\ Len(pickPokes) >= 2 /\ Len(pickChallenges) >= 1) =>
        pickResult = Reference(pickPokes, pickChallenges)

\* =====================================================================
\* The cursor and the poke ranges over many ticks (checked under SpecScan)
\* =====================================================================
\* The step is a tick that got past GetPokes.
ScanFetches == scLast' # scLast /\ PokesFetched(scLast')

\* C28: once the poke fetch of a tick succeeds the cursor is that tick's
\* latest block; a tick whose successful-challenge fetch then fails returns an
\* error having spawned nothing, the next tick asks for pokes from that latest
\* block on, and no later tick fetches pokes again from the earlier blocks of
\* the failed tick's range.
C28_FailedWindowNeverRefetched ==
    /\ [][PokesFetched(scLast') => scCursor' = scLast'.latest]_vars
    /\ [](scLast.step = "GetSuccessfulChallenges" => scLast.spawned = 0)
    /\ [][(scLast.step = "GetSuccessfulChallenges" /\ scLast'.from # Nil)
            => scLast'.from = scLast.latest]_vars
    /\ [][PokesFetched(scLast') =>
            \A b \in scLost : ~(Val(scLast'.from) <= b /\ b <= Val(scLast'.latest))]_vars

\* The step is a tick that returned the error of one of its first steps.
ScanFailsEarly == scLast'.step \in EarlySteps

\* A tick that fails before the cursor is set changes neither the cursor (a
\* null cursor stays null) nor the gauge and spawns nothing.
FailedTickChangesNothing ==
    [][ScanFailsEarly =>
          /\ scCursor' = scCursor
          /\ scGauge' = scGauge
          /\ scLast'.spawned = 0
          /\ scLost' = scLost]_vars

\* C29 as stated: a tick failing at the latest-block read, the period read
\* or the poke fetch leaves the cursor and the gauge alone and spawns nothing,
\* and the next tick asks for pokes from the starting block the failed tick
\* had computed.
C29_FailedTickRescansSameStart ==
    /\ FailedTickChangesNothing
    /\ []((scPrev.step \in EarlySteps /\ scPrev.from # Nil /\ scLast.from # Nil)
            => scLast.from = scPrev.from)

\* C29: a tick failing at the latest-block read, the period read or the
\* poke fetch leaves the cursor and the gauge alone and spawns nothing; the
\* next tick starts from the same cursor: from lastProcessedBlock when it is
\* set (the block the failed tick started from), and with a null cursor from
\* the earliest block of its own latest block and period.
C29_FailedTickRescansFromCursor ==
    /\ FailedTickChangesNothing
    /\ [][(scLast.step \in EarlySteps /\ scLast'.from # Nil) =>
            IF scCursor # Nil
            THEN /\ scLast'.from = scCursor
                 /\ scLast.from # Nil => scLast'.from = scLast.from
            ELSE \E challengePeriod \in PeriodValues :
                    scLast'.from = Ptr(getEarliestBlockNumber(Val(scLast'.latest),
                                                              challengePeriod))]_vars

\* The poke fetch failed with a cursor and a gauge set, and the next tick
\* fetched from the same block up to a later latest block.
C29_Witness ==
    /\ scPrev.step = "GetPokes"
    /\ PokesFetched(scLast)
    /\ scLast.from = scPrev.from
    /\ Val(scLast.latest) > Val(scPrev.latest)
    /\ Val(scPrev.latest) > Val(scPrev.from)
    /\ scGauge = scLast.latest

\* =====================================================================
\* The order of the spawns of one tick (checked under Spec)
\* =====================================================================
\* The range loop spawns a task for the candidate at idx, right after having
\* spawned one for the candidate before it.
SpawnsAgain ==
    /\ pc = "isPokeChallengeable"
    /\ idx' = idx + 1
    /\ lastSpawn.spawned
    /\ lastSpawn'.spawned

\* C30 as stated: within one tick, tasks are spawned in ascending order of
\* poke block number, whatever the order of the poke logs and the branch of
\* the filter.
C30_SpawnsAscending ==
    [][SpawnsAgain => GetBlockNumber(lastSpawn.poke) <= GetBlockNumber(lastSpawn'.poke)]_vars

\* C30: within one tick, tasks are spawned in the order of the filtered
\* list, one candidate after the other. That list is in ascending block
\* order when the tick has two or more pokes and at least one success, has
\* at most one element when the tick has one poke, and otherwise (no
\* success) is the poke list in the order the adapter returned it.
C30_SpawnsInFilteredOrder ==
    /\ [][TaskSpawned =>
            /\ pc = "isPokeChallengeable"
            /\ idx <= Len(tickPokes)
            /\ lastSpawn'.poke = tickPokes[idx]
            /\ inflight' = [inflight EXCEPT ![tickPokes[idx]] = @ + 1]
            /\ idx' = idx + 1
            /\ tickPokes' = tickPokes]_vars
    /\ []((pc = "isPokeChallengeable" /\ Len(pokeLogs) >= 2 /\ Len(challenges) >= 1)
            => BlockAscending(tickPokes))
    /\ []((pc = "isPokeChallengeable" /\ Len(pokeLogs) = 1) => Len(tickPokes) <= 1)
    /\ []((pc = "isPokeChallengeable" /\ Len(challenges) = 0) => tickPokes = pokeLogs)
    /\ [][(SpawnsAgain /\ (Len(challenges) >= 1 \/ BlockAscending(pokeLogs)))
            => GetBlockNumber(lastSpawn.poke) <= GetBlockNumber(lastSpawn'.poke)]_vars

\* The adapter returned two pokes in descending block order with a success,
\* and the tick has spawned a task for each, the lower block first.
C30_Witness ==
    /\ pc = "isPokeChallengeable"
    /\ Len(pokeLogs) = 2
    /\ ~BlockAscending(pokeLogs)
    /\ Len(challenges) = 1
    /\ Len(tickPokes) = 2
    /\ idx = 3
    /\ lastSpawn.spawned
    /\ lastSpawn.poke = tickPokes[2]
    /\ GetBlockNumber(tickPokes[1]) < GetBlockNumber(tickPokes[2])
    /\ inflight[tickPokes[1]] >= 1

\* =====================================================================
\* The phases of the per-Feed loop (checked under Spec)
\* =====================================================================
\* Positions of executeTick up to the correlation filter.
ScanningPcs == {"BlockNumber", "GetChallengePeriod", "GetPokes", "LastScannedBlockGauge",
                "GetSuccessfulChallenges"}

\* The phase of the loop: Scanning from the start of executeTick to the
\* filter (a range loop over an empty candidate list has no iteration and
\* belongs to it), Dispatching while the range loop runs over candidates,
\* Idle in Run outside executeTick.
Phase ==
    IF pc \in ScanningPcs \/ (pc = "isPokeChallengeable" /\ Len(tickPokes) = 0)
    THEN "Scanning"
    ELSE IF pc = "isPokeChallengeable" THEN "Dispatching"
    ELSE "Idle"

\* C31: the loop takes only the transitions Idle -> Scanning (on startup or
\* on a timer event, which starts a tick), Scanning -> Dispatching (only out
\* of the correlation filter, with a non-empty candidate list), Scanning ->
\* Idle and Dispatching -> Idle; a tick starts only in Idle, so ticks never
\* overlap, and candidates are examined only in Dispatching.
C31_PhaseTransitions ==
    /\ [][Phase' # Phase =>
            <<Phase, Phase'>> \in {<<"Idle", "Scanning">>, <<"Scanning", "Dispatching">>,
                                   <<"Scanning", "Idle">>, <<"Dispatching", "Idle">>}]_vars
    /\ [][(Phase = "Idle" /\ Phase' = "Scanning") =>
            /\ pc \in {"Run", "select"}
            /\ pc' = "BlockNumber"
            /\ tickNo' = tickNo + 1]_vars
    /\ [][(Phase = "Scanning" /\ Phase' = "Dispatching") =>
            /\ pc = "GetSuccessfulChallenges"
            /\ tickPokes' = PickUnchallengedPokes(pokeLogs, challenges')
            /\ Len(tickPokes') > 0]_vars
    /\ [][tickNo' # tickNo => (Phase = "Idle" /\ Phase' = "Scanning")]_vars
    /\ [][(idx' # idx /\ idx # 0 /\ Phase' # "Idle") => Phase = "Dispatching"]_vars
    /\ [][(pc = "returned" \/ pc = "done") => Phase' = "Idle"]_vars

\* The second tick is dispatching its second candidate.
C31_Witness ==
    /\ tickNo = 2
    /\ Phase = "Dispatching"
    /\ Len(tickPokes) = 2
    /\ idx = 2

\* =====================================================================
\* When Run starts a tick (checked under Spec)
\* =====================================================================
\* C32: Run leaves its start only into the first tick, which it can always
\* do, cancelled context or not; every later tick starts from the select (on
\* a timer event); Run returns only from the select, after the first tick;
\* and once it has returned (it took the shutdown case) no tick starts.
C32_FirstTickThenTimerTicks ==
    /\ [][(pc = "Run" /\ pc' # pc) => (pc' = "BlockNumber" /\ tickNo = 0 /\ tickNo' = 1)]_vars
    /\ [](pc = "Run" => (tickNo = 0 /\ ENABLED RunFirstTick))
    /\ [](pc # "Run" => tickNo >= 1)
    /\ [][(tickNo' # tickNo /\ tickNo >= 1) =>
            (pc = "select" /\ pc' = "BlockNumber" /\ tickNo' = tickNo + 1)]_vars
    /\ [][(pc' = "done" /\ pc # "done") => (pc = "select" /\ ctxDone /\ tickNo >= 1)]_vars
    /\ [][pc = "done" => (pc' = "done" /\ tickNo' = tickNo)]_vars

\* A timer event started the second tick although the context was already
\* cancelled: Run had not looked at the signal yet.
C32_Witness ==
    /\ pc = "BlockNumber"
    /\ tickNo = 2
    /\ ctxDone

\* =====================================================================
\* Independence of the Feeds (checked under SpecFeeds)
\* =====================================================================
\* The step is one of Feed f's goroutines: its loop moves (a tick starts, a
\* tick returns with or without an error, Run returns) or a challenge task of
\* it starts or ends.
FeedActs(f) ==
    \/ fdPc'[f] # fdPc[f]
    \/ fdTicks'[f] # fdTicks[f]
    \/ fdInflight'[f] # fdInflight[f]

\* C33: a step of Feed A (a tick starting, a tick returning with or without
\* an error, a challenge task ending, its Run returning) changes neither the
\* cursor of Feed B nor where B's loop stands nor B's running tasks; and B
\* can start its next tick, and end the tick it is in, whatever A is doing.
C33_FeedsIndependent ==
    /\ [][\A f \in Feeds :
            FeedActs(f) =>
                \A g \in Feeds \ {f} :
                    /\ fdCursor'[g] = fdCursor[g]
                    /\ fdPc'[g] = fdPc[g]
                    /\ fdTicks'[g] = fdTicks[g]
                    /\ fdInflight'[g] = fdInflight[g]]_vars
    /\ [][\A f \in Feeds : fdCursor'[f] # fdCursor[f] => fdPc[f] = "executeTick"]_vars
    /\ [](\A g \in Feeds :
            (fdPc[g] \in {"Run", "select"} /\ fdTicks[g] < MaxFeedTicks)
                => ENABLED FeedTickStarts(g))
    /\ [](\A g \in Feeds : fdPc[g] = "executeTick" => ENABLED FeedTickReturns(g))

\* Feed B has run two ticks and moved its cursor while Feed A is still in
\* its first tick with its cursor not set, and a task of B is running.
C33_Witness ==
    /\ fdPc["A"] = "executeTick"
    /\ fdTicks["A"] = 1
    /\ fdCursor["A"] = Nil
    /\ fdTicks["B"] = 2
    /\ fdPc["B"] = "select"
    /\ fdCursor["B"] # Nil
    /\ fdInflight["B"] >= 1

\* =====================================================================
\* The end of WaitForTxConfirmation (checked under SpecChallengeLive)
\* =====================================================================
\* The confirmation wait on this client is running.
CpWaiting(client) == cpPc = CpAt(client, "WaitForTxConfirmation")

\* The last call recorded after the step.
CpLastCall == cpLog'[Len(cpLog')]

\* C34: WaitForTxConfirmation always terminates, on either endpoint. It ends
\* with a receipt, whose transaction ChallengePoke returns, or with an error,
\* at ctx.Done (the timeout elapsed or the parent context was cancelled; this
\* way out is always open) or at once on a nil hash. The error of the wait on
\* the relay makes ChallengePoke go on to the public client; the error of the
\* wait on the public client is the error ChallengePoke returns.
C34_WaitTerminates ==
    /\ CpWaiting("flashbotClient") ~> ~CpWaiting("flashbotClient")
    /\ CpWaiting("client") ~> ~CpWaiting("client")
    /\ []((cpPc.at = "WaitForTxConfirmation" /\ CpHash(cpPc.client) # "nilHash")
            => ENABLED WaitCtxDone)
    /\ [][(cpPc.at = "WaitForTxConfirmation" /\ cpPc' # cpPc) =>
            /\ Len(cpLog') = Len(cpLog) + 1
            /\ CpLastCall.client = cpPc.client
            /\ \/ /\ CpLastCall.call = "GetTransactionReceipt"
                  /\ CpLastCall.out \in ReceiptOutcomes
                  /\ cpPc' = CpAt("", "returned")
                  /\ cpResult' = [err |-> FALSE, hash |-> Ptr(CpHash(cpPc.client))]
               \/ /\ CpLastCall.call = "WaitForTxConfirmation"
                  /\ CpLastCall.out \in {"ctxDone", "nilHash"}
                  /\ IF cpPc.client = "flashbotClient"
                     THEN /\ cpPc' = CpAt("client", "SendTransaction")
                          /\ cpResult' = cpResult
                     ELSE /\ cpPc' = CpAt("", "returned")
                          /\ cpResult' = [err |-> TRUE, hash |-> Nil]]_vars

\* Both waits ran out after all their polls: the relay's made ChallengePoke
\* send on the public client, the public one's is the error returned.
C34_Witness ==
    /\ cpPc.at = "returned"
    /\ cpResult.err
    /\ CpWaitTimedOut("flashbotClient")
    /\ CpWaitTimedOut("client")
    /\ Len(CpCalls("flashbotClient", "GetTransactionReceipt")) = MaxPolls
    /\ Len(CpCalls("client", "GetTransactionReceipt")) = MaxPolls

\* =====================================================================
\* What WaitForTxConfirmation returns (checked under SpecWait)
\* =====================================================================
\* C35: WaitForTxConfirmation returns a receipt only if it is non-nil with a
\* non-nil status and a non-zero transaction hash, and then it is the last
\* one polled; an error, a nil receipt or an incomplete receipt of a poll
\* leaves the wait running; receipts of reverted and of successful
\* transactions are returned alike; a nil client or a nil hash returns an
\* error without any poll.
C35_ReceiptOnlyWhenComplete ==
    /\ [](wtResult.receipt # Nil =>
            LET answer == Val(wtResult.receipt)
            IN /\ wtPc = "returned"
               /\ wtResult.err = ""
               /\ wtPolls # <<>>
               /\ answer = wtPolls[Len(wtPolls)]
               /\ ~ReceiptErr(answer)
               /\ ~ReceiptIsNil(answer)
               /\ ReceiptStatus(answer) # Nil
               /\ ~ReceiptHashIsZero(answer))
    /\ [][(wtPc = "select" /\ Len(wtPolls') = Len(wtPolls) + 1) =>
            LET answer == wtPolls'[Len(wtPolls')]
            IN IF \/ ReceiptErr(answer)
                  \/ ReceiptIsNil(answer)
                  \/ ReceiptStatus(answer) = Nil
                  \/ ReceiptHashIsZero(answer)
               THEN wtPc' = "select" /\ wtResult' = wtResult
               ELSE /\ wtPc' = "returned"
                    /\ wtResult' = [err |-> "", receipt |-> Ptr(answer)]
                    /\ answer \in {"status0", "status1"}]_vars
    /\ []((wtPc = "select" /\ Len(wtPolls) < MaxPolls) =>
            /\ ENABLED (WaitTicks /\ wtResult'.receipt = Ptr("status0"))
            /\ ENABLED (WaitTicks /\ wtResult'.receipt = Ptr("status1"))
            /\ ENABLED (WaitTicks /\ wtPc' = "select"))
    /\ []((wtPc # "call" /\ (wtClient = "nil" \/ wtHash = Nil)) =>
            /\ wtPc = "returned"
            /\ wtResult.err # ""
            /\ wtResult.receipt = Nil
            /\ wtPolls = <<>>)

\* The receipt of a reverted transaction was returned after a poll that
\* found a receipt without a status.
C35_Witness ==
    /\ wtPc = "returned"
    /\ wtPolls = <<"nilStatus", "status0">>
    /\ wtResult = [err |-> "", receipt |-> Ptr("status0")]

\* =====================================================================
\* The read methods of the provider (checked under SpecProvider)
\* =====================================================================
\* The decodable logs of the answer, in the answer's order.
DecodableLogs == SelectSeq(pvLogs, LAMBDA log : log.data # "bad")

\* C36: GetPokes and GetSuccessfulChallenges return an error exactly when
\* the log query failed; otherwise they return one event per decodable log
\* of the answer, in the answer's order and with the log's block number, and
\* the logs that fail to decode are left out.
C36_DecodableLogsInOrder ==
    (pvDone /\ pvFn \in {"GetPokes", "GetSuccessfulChallenges"}) =>
        /\ pvResult.err = pvQueryErr
        /\ pvQueryErr => pvResult.val = <<>>
        /\ ~pvQueryErr =>
              /\ Len(pvResult.val) = Len(DecodableLogs)
              /\ \A i \in 1..Len(DecodableLogs) :
                    /\ GetBlockNumber(pvResult.val[i]) = DecodableLogs[i].blk
                    /\ Name(pvResult.val[i]) = IF pvFn = "GetPokes"
                                                THEN "OpPoked"
                                                ELSE "OpPokeChallengedSuccessfullyEvent"
                    /\ pvFn = "GetPokes" => pvResult.val[i].tag = DecodableLogs[i].data

\* GetPokes got a log that does not decode before a good one, in a later
\* block than the good one: it returned the good one alone, with no error.
C36_Witness ==
    /\ pvDone
    /\ pvFn = "GetPokes"
    /\ Len(pvLogs) = 2
    /\ pvLogs[1].data = "bad"
    /\ pvLogs[1].blk > pvLogs[2].blk
    /\ pvResult = [err |-> FALSE, val |-> <<OpPokedEvent(pvLogs[2].blk, pvLogs[2].data)>>]

\* C37: IsPokeSignatureValid calls constructPokeMessage first and then
\* isAcceptableSchnorrSignatureNow on the digest the first call returned; when
\* the first round fails the second call is not made and the result is
\* (false, error); when the second round fails the result is (false, error);
\* otherwise the result is the boolean of the second call, with no error.
C37_TwoReadsInOrder ==
    (pvDone /\ pvFn = "IsPokeSignatureValid") =>
        /\ Len(pvCalls) <= 2
        /\ \A i \in 1..Len(pvCalls) :
              pvCalls[i].method = IF i = 1 THEN "constructPokeMessage"
                                  ELSE "isAcceptableSchnorrSignatureNow"
        /\ pvMsg \in ReadFailures =>
              /\ pvResult = [err |-> TRUE, val |-> FALSE]
              /\ \A i \in 1..Len(pvCalls) :
                    pvCalls[i].method # "isAcceptableSchnorrSignatureNow"
        /\ pvMsg \in Digests =>
              /\ pvCalls[1] = ClientCall("constructPokeMessage", "pokeData")
              /\ pvSig # "encodeErr" =>
                    /\ Len(pvCalls) = 2
                    /\ pvCalls[2] = ClientCall("isAcceptableSchnorrSignatureNow", pvMsg)
              /\ pvSig \in ReadFailures => pvResult = [err |-> TRUE, val |-> FALSE]
              /\ pvSig = "true" => pvResult = [err |-> FALSE, val |-> TRUE]
              /\ pvSig = "false" => pvResult = [err |-> FALSE, val |-> FALSE]

\* The signature check was asked about the second digest and answered true.
C37_Witness ==
    /\ pvDone
    /\ pvFn = "IsPokeSignatureValid"
    /\ pvCalls = <<ClientCall("constructPokeMessage", "pokeData"),
                   ClientCall("isAcceptableSchnorrSignatureNow", "0xd2")>>
    /\ pvResult = [err |-> FALSE, val |-> TRUE]

\* =====================================================================
\* The cursor and the ranges of the log queries (checked under SpecScan)
\* =====================================================================
\* C38: in every reachable state lastProcessedBlock is null or a
\* non-negative integer, whatever the seed.
C38_CursorNullOrNonNegative ==
    scCursor = Nil \/ Val(scCursor) >= 0

\* C39: the range [from, latest] a tick hands to its log queries has
\* from <= latest, whatever the seed and the latest blocks read.
C39_RangeNeverInverted ==
    scLast.from # Nil => Val(scLast.from) <= Val(scLast.latest)

\* The last two ticks both got past GetPokes.
BothFetched == PokesFetched(scPrev) /\ PokesFetched(scLast)

\* C40 (as stated): of two consecutive ticks whose poke fetches succeed the
\* second range starts at the first tick's latest block, the two ranges share
\* exactly that block, and no block is scanned by more than two successful
\* poke fetches.
C40_BoundaryScannedTwice ==
    /\ BothFetched =>
          /\ scLast.from = scPrev.latest
          /\ Range(scPrev) \cap Range(scLast) = {Val(scPrev.latest)}
    /\ scScans <= 2

\* C40 (amended): of two consecutive ticks whose poke fetches succeed the
\* second range starts at the first tick's latest block; the two ranges share
\* no other block, and share that one when neither range is empty.
C40_NextRangeStartsAtLatest ==
    BothFetched =>
        /\ scLast.from = scPrev.latest
        /\ Range(scPrev) \cap Range(scLast) \subseteq {Val(scPrev.latest)}
        /\ (Range(scPrev) # {} /\ Range(scLast) # {})
              => Range(scPrev) \cap Range(scLast) = {Val(scPrev.latest)}

\* Two successful poke fetches in a row, the head one block further at the
\* second: the ranges [0, 1] and [1, 2].
C40_Witness ==
    /\ BothFetched
    /\ Range(scPrev) = {0, 1}
    /\ Range(scLast) = {1, 2}

====
